---- MODULE Spec2Model ----
(***************************************************************************)
(* State-machine model of the SmartSpace agentic payment gateway:          *)
(*   - AuditLogger        (src/agentic/src/audit_logging/audit_logger.py)  *)
(*   - AuditEntry/AuditLog (src/backend/agentic/src/models/audit.py)       *)
(*   - PaymentExecutor    (src/agentic/src/payments/payment_executor.py)   *)
(*   - AutonomousPaymentDecisionEngine                                     *)
(*                        (src/agentic/src/decision_engine/...)            *)
(*   - AgenticBrain       (src/agentic/src/main.py)                        *)
(*                                                                         *)
(* SHA-256 is modelled as an injective function of the serialized content: *)
(* a hash is the tuple of exactly the fields the code puts into the        *)
(* hashed dictionary.  Collaborator calls of the pipeline are taken at     *)
(* their awaited result; every collaborator may also raise.                *)
(***************************************************************************)
EXTENDS Integers, Sequences, FiniteSets, TLC

VARIABLES
    \* ---- AuditLogger (process-wide logging.Logger "audit_logger") ----
    instances,      \* AuditLogger objects constructed so far
    last_hash,      \* instance -> _last_hash
    trails,         \* instance -> (request_id -> events of the in-memory trail)
    day_file,       \* lines of audit_YYYYMMDD.jsonl, in write order
    log_count,      \* number of log ids generated so far (uuid4 is fresh)
    \* ---- AuditLog (backend models) ----
    entries,        \* AuditLog.entries
    tamper,         \* what an outside writer changed: <<index, field>> or <<>>
    verify_log,     \* results of the verify_integrity calls, in call order
    \* ---- PaymentExecutor and the backend it posts to ----
    ledger,         \* on-ledger payment transactions the backend executed
    settlements,    \* commit records the backend stored
    pay_log,        \* what each reserve_payment / commit_payment call gave
    \* ---- Decision engine and AgenticBrain ----
    engine_out,     \* what each engine.process_request call gave, in order
    brain,          \* call -> the locals of that AgenticBrain.process_request
    \* ---- PolicyManager.check_compliance and BudgetTracker, called alone ----
    policy_in,      \* request, user policy, system policy and clock of a call
    policy_out,     \* the ComplianceResult of that call
    budget_in,      \* balance, amount, policy and spending of a call
    budget_out,     \* the BudgetCheck of that call
    \* ---- the TTL caches of BudgetTracker, PricingEngine, PolicyManager ----
    now,            \* seconds since the process started
    cache,          \* per cache: the stored value and when it was stored
    cache_reads,    \* what each read found and did
    \* ---- RiskDetector.assess_risk, called alone ----
    risk_in,        \* request, user context and baseline answer of a call
    risk_out,       \* the RiskAssessmentResult of that call
    \* ---- AuditLogger.generate_compliance_report, called alone ----
    report_in,      \* the events logged before the call and its arguments
    report_out,     \* the ComplianceReport of that call
    \* ---- the day file of one AuditLogger over the hours ----
    wall_clock,     \* the UTC hour, the zone offset and the handler's file
    file_lines      \* per written line: the file it went to, its timestamp

logger_vars == <<instances, last_hash, trails, day_file, log_count>>
auditlog_vars == <<entries, tamper, verify_log>>
pay_vars == <<ledger, settlements, pay_log>>
pipe_vars == <<engine_out, brain>>
cache_vars == <<now, cache, cache_reads>>
risk_vars == <<risk_in, risk_out>>
report_vars == <<report_in, report_out>>
file_vars == <<wall_clock, file_lines>>
fun_vars ==
    <<policy_in, policy_out, budget_in, budget_out, cache_vars, risk_vars,
      report_vars, file_vars>>

-----------------------------------------------------------------------------
(* Bounds of the model *)

MaxEvents == 3      \* audit events written in one run of the logger model
MaxEntries == 3     \* entries added to one AuditLog
MaxVerify == 2      \* verify_integrity calls on one AuditLog
MaxPayCalls == 3    \* reserve_payment / commit_payment calls in one run

RequestIds == {"r1", "r2"}
LoggerNames == {"brain", "engine"}

NoHash == <<>>      \* Python None for previous_hash / current_hash

-----------------------------------------------------------------------------
(* AuditLogger: src/agentic/src/audit_logging/audit_logger.py *)

EventType == {"request_received", "policy_check", "budget_check",
              "risk_assessment", "agent_decision", "payment_reserved",
              "payment_completed", "api_call_success", "api_call_failed",
              "error"}

\* AuditEvent._calculate_hash: sha256 over the json of every field but
\* current_hash, previous_hash included.
_calculate_hash(ev) ==
    <<"sha256", ev.log_id, ev.request_id, ev.event_type, ev.event_details,
      ev.result, ev.error, ev.previous_hash>>

\* AuditEvent(...) with __post_init__: current_hash is filled in on creation.
AuditEvent(id, rid, type, details, result, error, prev) ==
    LET ev == [log_id |-> id, request_id |-> rid, event_type |-> type,
               event_details |-> details, result |-> result, error |-> error,
               previous_hash |-> prev]
    IN  [log_id |-> id, request_id |-> rid, event_type |-> type,
         event_details |-> details, result |-> result, error |-> error,
         previous_hash |-> prev, current_hash |-> _calculate_hash(ev)]

\* The logger objects and the file they share, as one value.
LoggerState ==
    [instances |-> instances, last_hash |-> last_hash, trails |-> trails,
     day_file |-> day_file, log_count |-> log_count]

SetLoggerState(S) ==
    /\ instances' = S.instances
    /\ last_hash' = S.last_hash
    /\ trails' = S.trails
    /\ day_file' = S.day_file
    /\ log_count' = S.log_count

\* _generate_log_id: uuid4, modelled as the next unused number.
_generate_log_id(S) == S.log_count + 1

\* The chain head a new event is linked to: the logger's own _last_hash.
PreviousHashFor(S, l) == S.last_hash[l]

\* One line per FileHandler attached to logging.getLogger("audit_logger");
\* every AuditLogger.__init__ attaches one more handler to that same logger.
RECURSIVE Repeat(_, _)
Repeat(x, n) == IF n = 0 THEN <<>> ELSE <<x>> \o Repeat(x, n - 1)

\* _write_event: logger.info(json line), then _last_hash := current_hash.
_write_event(S, l, ev) ==
    [S EXCEPT !.day_file = @ \o Repeat(ev, Cardinality(S.instances)),
              !.last_hash = [@ EXCEPT ![l] = ev.current_hash],
              !.log_count = @ + 1]

\* AuditTrail.add_event on the trail of request rid
add_event(tr, rid, ev) ==
    [r \in DOMAIN tr |-> IF r = rid THEN Append(tr[r], ev) ELSE tr[r]]

\* `if request_id not in self._trails: self._trails[request_id] = AuditTrail()`
EnsureTrail(tr, rid) ==
    [r \in (DOMAIN tr) \cup {rid} |-> IF r \in DOMAIN tr THEN tr[r] ELSE <<>>]

\* log_request_received: writes the event, creates the trail if absent,
\* then adds the event to it.
log_request_received(S, l, rid) ==
    LET ev == AuditEvent(_generate_log_id(S), rid, "request_received", "-",
                         "success", "None", PreviousHashFor(S, l))
        W == _write_event(S, l, ev)
    IN  [W EXCEPT !.trails = [@ EXCEPT ![l] =
                                 add_event(EnsureTrail(@, rid), rid, ev)]]

\* The nine other log_* methods share one shape: build the event linked to
\* _last_hash, write it, and add it to the trail only if the trail exists.
log_event(S, l, rid, type, details, result, error) ==
    LET ev == AuditEvent(_generate_log_id(S), rid, type, details, result,
                         error, PreviousHashFor(S, l))
        W == _write_event(S, l, ev)
    IN  IF rid \in DOMAIN S.trails[l]
        THEN [W EXCEPT !.trails = [@ EXCEPT ![l] = add_event(@, rid, ev)]]
        ELSE W

log_policy_check(S, l, rid, compliant) ==
    log_event(S, l, rid, "policy_check", compliant,
              IF compliant THEN "success" ELSE "failure",
              IF compliant THEN "None" ELSE "Policy violations detected")

\* A budget check that is followed by the risk step whatever its verdict
LogBudgetCheckThenRisk(S, l, rid, budget_approved) ==
    log_event(log_event(S, l, rid, "budget_check", budget_approved,
                        IF budget_approved THEN "success" ELSE "failure",
                        IF budget_approved THEN "None"
                        ELSE "Insufficient budget"),
              l, rid, "risk_assessment", "low", "success", "None")

log_budget_check(S, l, rid, budget_approved) ==
    log_event(S, l, rid, "budget_check", budget_approved,
              IF budget_approved THEN "success" ELSE "failure",
              IF budget_approved THEN "None" ELSE "Insufficient budget")

log_risk_assessment(S, l, rid, risk_level) ==
    log_event(S, l, rid, "risk_assessment", risk_level, "success", "None")

log_agent_decision(S, l, rid, decision) ==
    log_event(S, l, rid, "agent_decision", decision, "success", "None")

log_payment_reserved(S, l, rid, reservation_id) ==
    log_event(S, l, rid, "payment_reserved", reservation_id, "success", "None")

log_payment_completed(S, l, rid, variance) ==
    log_event(S, l, rid, "payment_completed", variance, "success", "None")

log_api_call_success(S, l, rid) ==
    log_event(S, l, rid, "api_call_success", "-", "success", "None")

log_api_call_failed(S, l, rid, error) ==
    log_event(S, l, rid, "api_call_failed", error, "failure", error)

log_error(S, l, rid, error) ==
    log_event(S, l, rid, "error", "-", "failure", error)

\* get_request_audit_trail: the in-memory trail if there is one, otherwise
\* the lines of the day files with that request id, in file order.
RECURSIVE SelectRid(_, _)
SelectRid(lines, rid) ==
    IF lines = <<>> THEN <<>>
    ELSE (IF Head(lines).request_id = rid THEN <<Head(lines)>> ELSE <<>>)
         \o SelectRid(Tail(lines), rid)

get_request_audit_trail(S, l, rid) ==
    IF rid \in DOMAIN S.trails[l] THEN S.trails[l][rid]
    ELSE SelectRid(S.day_file, rid)

-----------------------------------------------------------------------------
(* Specification of one AuditLogger receiving arbitrary log_* calls *)

InitLoggerWith(names) ==
    /\ instances = names
    /\ last_hash = [l \in names |-> NoHash]
    /\ trails = [l \in names |-> <<>>]
    /\ day_file = <<>>
    /\ log_count = 0

InitAuditLog ==
    /\ entries = <<>>
    /\ tamper = <<>>
    /\ verify_log = <<>>

InitPay ==
    /\ ledger = <<>>
    /\ settlements = <<>>
    /\ pay_log = <<>>

InitPipe ==
    /\ engine_out = <<>>
    /\ brain = <<>>

\* No call of check_compliance or of the budget checks on their own
\* No cache filled, no assess_risk call
InitIdle ==
    /\ now = 0
    /\ cache = <<>>
    /\ cache_reads = <<>>
    /\ risk_in = <<>>
    /\ risk_out = <<>>
    /\ report_in = <<>>
    /\ report_out = <<>>
    /\ wall_clock = <<>>
    /\ file_lines = <<>>

InitFun ==
    /\ policy_in = <<>>
    /\ policy_out = <<>>
    /\ budget_in = <<>>
    /\ budget_out = <<>>
    /\ InitIdle

CallRequestReceived ==
    \E rid \in RequestIds :
        /\ log_count < MaxEvents
        /\ SetLoggerState(log_request_received(LoggerState, "brain", rid))
        /\ UNCHANGED <<auditlog_vars, pay_vars, pipe_vars, fun_vars>>

CallPolicyCheck ==
    \E rid \in RequestIds, compliant \in BOOLEAN :
        /\ log_count < MaxEvents
        /\ SetLoggerState(log_policy_check(LoggerState, "brain", rid, compliant))
        /\ UNCHANGED <<auditlog_vars, pay_vars, pipe_vars, fun_vars>>

CallBudgetCheck ==
    \E rid \in RequestIds, ok \in BOOLEAN :
        /\ log_count < MaxEvents
        /\ SetLoggerState(log_budget_check(LoggerState, "brain", rid, ok))
        /\ UNCHANGED <<auditlog_vars, pay_vars, pipe_vars, fun_vars>>

CallRiskAssessment ==
    \E rid \in RequestIds :
        /\ log_count < MaxEvents
        /\ SetLoggerState(log_risk_assessment(LoggerState, "brain", rid, "low"))
        /\ UNCHANGED <<auditlog_vars, pay_vars, pipe_vars, fun_vars>>

CallAgentDecision ==
    \E rid \in RequestIds :
        /\ log_count < MaxEvents
        /\ SetLoggerState(log_agent_decision(LoggerState, "brain", rid, "APPROVED"))
        /\ UNCHANGED <<auditlog_vars, pay_vars, pipe_vars, fun_vars>>

CallPaymentReserved ==
    \E rid \in RequestIds :
        /\ log_count < MaxEvents
        /\ SetLoggerState(log_payment_reserved(LoggerState, "brain", rid, "res"))
        /\ UNCHANGED <<auditlog_vars, pay_vars, pipe_vars, fun_vars>>

CallPaymentCompleted ==
    \E rid \in RequestIds :
        /\ log_count < MaxEvents
        /\ SetLoggerState(log_payment_completed(LoggerState, "brain", rid, 0))
        /\ UNCHANGED <<auditlog_vars, pay_vars, pipe_vars, fun_vars>>

CallApiCallSuccess ==
    \E rid \in RequestIds :
        /\ log_count < MaxEvents
        /\ SetLoggerState(log_api_call_success(LoggerState, "brain", rid))
        /\ UNCHANGED <<auditlog_vars, pay_vars, pipe_vars, fun_vars>>

CallApiCallFailed ==
    \E rid \in RequestIds :
        /\ log_count < MaxEvents
        /\ SetLoggerState(log_api_call_failed(LoggerState, "brain", rid, "timeout"))
        /\ UNCHANGED <<auditlog_vars, pay_vars, pipe_vars, fun_vars>>

CallLogError ==
    \E rid \in RequestIds :
        /\ log_count < MaxEvents
        /\ SetLoggerState(log_error(LoggerState, "brain", rid, "boom"))
        /\ UNCHANGED <<auditlog_vars, pay_vars, pipe_vars, fun_vars>>

vars == <<instances, last_hash, trails, day_file, log_count,
          entries, tamper, verify_log, ledger, settlements, pay_log,
          engine_out, brain, policy_in, policy_out, budget_in, budget_out,
          now, cache, cache_reads, risk_in, risk_out, report_in,
          report_out, wall_clock, file_lines>>

InitLogger ==
    InitLoggerWith({"brain"}) /\ InitAuditLog /\ InitPay /\ InitPipe
    /\ InitFun

NextLogger ==
    \/ CallRequestReceived
    \/ CallPolicyCheck
    \/ CallBudgetCheck
    \/ CallRiskAssessment
    \/ CallAgentDecision
    \/ CallPaymentReserved
    \/ CallPaymentCompleted
    \/ CallApiCallSuccess
    \/ CallApiCallFailed
    \/ CallLogError

SpecLogger == InitLogger /\ [][NextLogger]_vars

-----------------------------------------------------------------------------
(* C1: on one AuditLogger, whatever the interleaving of log_* calls of     *)
(* two or more request ids, the trail returned for each request id is a    *)
(* hash chain: every event after the first has previous_hash equal to the  *)
(* current_hash of the event just before it in that trail.                 *)

IsHashChain(evs) ==
    \A i \in 2..Len(evs) : evs[i].previous_hash = evs[i - 1].current_hash

C1_TrailIsHashChain ==
    \A rid \in RequestIds :
        IsHashChain(get_request_audit_trail(LoggerState, "brain", rid))

(* C38: get_request_audit_trail(request_id) returns exactly the events     *)
(* that were logged for that request-id, in the order they were logged,     *)
(* whether it answers from the in-memory trail or rebuilds the trail from   *)
(* the day files, including events logged before any request_received      *)
(* event for that id.  (One AuditLogger: the day file holds one line per    *)
(* logged event, in logging order.)                                         *)
C38_TrailIsEverythingLogged ==
    \A rid \in RequestIds :
        get_request_audit_trail(LoggerState, "brain", rid)
          = SelectRid(day_file, rid)

-----------------------------------------------------------------------------
(* AuditEntry / AuditLog: src/backend/agentic/src/models/audit.py *)

PyNone == "None"
NoneHash == <<"None">>     \* None in a hash-valued field
EmptyHash == <<"">>        \* the empty string in a hash-valued field

\* The fields of an AuditEntry an outside writer can change.
EntryFields == {"log_id", "request_id", "user_id", "project_id", "agent_id",
                "event_type", "event_details", "context_snapshot", "result",
                "error", "timestamp", "previous_hash", "entry_hash"}

\* `self.previous_hash or ""`: None and the empty string hash alike.
OrEmpty(h) == IF h = NoneHash THEN EmptyHash ELSE h

\* AuditEntry.calculate_hash: sha256 over the json of log_id, request_id,
\* event_type, timestamp, event_details, result and previous_hash.
calculate_hash(e) ==
    <<"sha256", e.log_id, e.request_id, e.event_type, e.timestamp,
      e.event_details, e.result, OrEmpty(e.previous_hash)>>

\* A fresh AuditEntry as the caller builds it (hash fields still None).
AuditEntry(id, type) ==
    [log_id |-> id, request_id |-> "r1", user_id |-> "u1",
     project_id |-> "p1", agent_id |-> PyNone, event_type |-> type,
     event_details |-> "details", context_snapshot |-> "snapshot",
     result |-> "success", error |-> PyNone, timestamp |-> id,
     previous_hash |-> NoneHash, entry_hash |-> NoneHash]

\* An add_entry that hashes and appends without linking the entry to its
\* predecessor
AddEntryUnlinked(log, entry) ==
    Append(log, [entry EXCEPT !.entry_hash = calculate_hash(entry)])

\* AuditLog.add_entry: link to the last entry's entry_hash, compute the
\* hash (calculate_hash stores it in entry_hash), append.
add_entry(log, entry) ==
    LET linked == IF log /= <<>>
                  THEN [entry EXCEPT !.previous_hash = log[Len(log)].entry_hash]
                  ELSE entry
    IN  Append(log, [linked EXCEPT !.entry_hash = calculate_hash(linked)])

\* AuditLog.verify_integrity from entry i on.  calculate_hash overwrites
\* entry_hash of every entry it visits, so the log itself is part of the
\* result: [ok |-> returned boolean, log |-> entries after the call].
RECURSIVE verify_from(_, _)
verify_from(log, i) ==
    IF i > Len(log) THEN [ok |-> TRUE, log |-> log]
    ELSE LET stored_hash == log[i].entry_hash
             calculated_hash == calculate_hash(log[i])
             log2 == [log EXCEPT ![i].entry_hash = calculated_hash]
         IN  IF stored_hash /= calculated_hash
             THEN [ok |-> FALSE, log |-> log2]
             ELSE IF i > 1 /\ log2[i].previous_hash /= log2[i - 1].entry_hash
                  THEN [ok |-> FALSE, log |-> log2]
                  ELSE verify_from(log2, i + 1)

verify_integrity(log) == verify_from(log, 1)

AddEntry ==
    \E type \in {"request_received", "policy_check"} :
        /\ Len(entries) < MaxEntries
        /\ tamper = <<>>
        /\ entries' = add_entry(entries, AuditEntry(Len(entries) + 1, type))
        /\ UNCHANGED <<tamper, verify_log>>
        /\ UNCHANGED <<logger_vars, pay_vars, pipe_vars, fun_vars>>

\* An outside writer changes the value of one field of one stored entry.
\* A previous_hash of None may also be rewritten as the empty string.
TamperValue(e, f) ==
    IF f \in {"previous_hash", "entry_hash"}
    THEN (IF e[f] = NoneHash THEN {EmptyHash} ELSE {}) \cup {<<"changed">>}
    ELSE IF f \in {"log_id", "timestamp"} THEN {0}
    ELSE {"changed"}

Tamper ==
    \E i \in 1..Len(entries), f \in EntryFields :
      \E v \in TamperValue(entries[i], f) :
        /\ tamper = <<>>
        /\ verify_log = <<>>
        /\ entries' = [entries EXCEPT ![i] = [entries[i] EXCEPT ![f] = v]]
        /\ tamper' = <<i, f>>
        /\ UNCHANGED verify_log
        /\ UNCHANGED <<logger_vars, pay_vars, pipe_vars, fun_vars>>

VerifyIntegrity ==
    /\ Len(verify_log) < MaxVerify
    /\ entries /= <<>>
    /\ LET r == verify_integrity(entries)
       IN  /\ entries' = r.log
           /\ verify_log' = Append(verify_log, r.ok)
    /\ UNCHANGED tamper
    /\ UNCHANGED <<logger_vars, pay_vars, pipe_vars, fun_vars>>

InitLog ==
    InitLoggerWith({"brain"}) /\ InitAuditLog /\ InitPay /\ InitPipe
    /\ InitFun

NextLog == AddEntry \/ Tamper \/ VerifyIntegrity

SpecAuditLog == InitLog /\ [][NextLog]_vars

(* C2: for an AuditLog built only by add_entry, changing the value of any  *)
(* single field of any entry makes verify_integrity return false.          *)
C2_AnyFieldChangeDetected ==
    (tamper /= <<>> /\ verify_log /= <<>>) => verify_log[1] = FALSE

(* C37: AuditLog.verify_integrity does not modify the log: every entry's   *)
(* stored entry_hash is the same after the call as before it, and repeated  *)
(* calls on an otherwise unchanged log always return the same boolean, so a *)
(* tampered log is reported false on every call.                            *)
C37_VerifyLeavesLogAlone ==
    [][verify_log' /= verify_log
         => /\ \A i \in 1..Len(entries) :
                  entries'[i].entry_hash = entries[i].entry_hash
            /\ (verify_log /= <<>> /\ tamper /= <<>>)
                 => verify_log'[Len(verify_log')]
                      = verify_log[Len(verify_log)]]_vars

(* C40: after any sequence of add_entry calls with distinct entries on an  *)
(* initially empty AuditLog, verify_integrity returns true: each entry's   *)
(* stored hash equals its recomputed hash and each entry after the first   *)
(* has previous_hash equal to the preceding entry's entry_hash.            *)
C40_AddedEntriesVerify ==
    tamper = <<>>
      => /\ \A k \in 1..Len(verify_log) : verify_log[k] = TRUE
         /\ \A i \in 1..Len(entries) :
               /\ entries[i].entry_hash = calculate_hash(entries[i])
               /\ i > 1
                    => entries[i].previous_hash = entries[i - 1].entry_hash

C40_Witness ==
    /\ tamper = <<>>
    /\ Len(entries) = MaxEntries
    /\ Len(verify_log) = MaxVerify
    /\ verify_log[1] = TRUE
    /\ entries[2].previous_hash = entries[1].entry_hash

-----------------------------------------------------------------------------
(* PaymentExecutor: src/agentic/src/payments/payment_executor.py           *)
(* Amounts are in hundredths of a USDC.                                    *)

Estimates == {0, 20}
Actuals == {19, 25}

\* What the backend can answer to POST /payments/reserve.
ReserveAnswers == {"ok", "402", "error"}
\* What the backend can answer to POST /payments/commit: an error, or a
\* body carrying the payment id of its choosing.
CommitAnswers ==
    {[ok |-> FALSE, payment_id |-> 0]}
        \cup {[ok |-> TRUE, payment_id |-> p] : p \in {1, 2}}

\* The backend's payment call (BackendClient.execute_payment): every call
\* that succeeds executes one blockchain transaction and returns its hash.
BackendExecutePayment(led, rid, amount) ==
    LET tx == Len(led) + 1
    IN  [ledger |-> Append(led, [request_id |-> rid, amount |-> amount,
                                 tx_hash |-> tx]),
         data |-> [reservation_id |-> tx, tx_hash |-> tx, block_number |-> tx]]

\* PaymentReservation built from the backend's answer (lines 244-253).
PaymentReservation(rid, estimated_amount, data) ==
    [reservation_id |-> data.reservation_id, request_id |-> rid,
     estimated_amount |-> estimated_amount, status |-> "RESERVED",
     tx_hash |-> data.tx_hash, block_number |-> data.block_number]

\* reserve_payment: one POST per call; 402 raises InsufficientFundsError,
\* any other failure raises PaymentError.
reserve_payment(led, rid, estimated_amount, answer) ==
    IF answer = "ok"
    THEN LET b == BackendExecutePayment(led, rid, estimated_amount)
         IN  [ledger |-> b.ledger, raised |-> "no",
              reservation |-> PaymentReservation(rid, estimated_amount, b.data)]
    ELSE [ledger |-> led,
          raised |-> IF answer = "402" THEN "InsufficientFundsError"
                                       ELSE "PaymentError",
          reservation |-> <<>>]

\* The variance with the other sign, as the docstring of
\* log_payment_completed words it ("actual - estimated")
VarianceActualMinusEstimated(estimated, actual) == actual - estimated

\* variance_amount and variance_percent (lines 309-310)
VarianceAmount(estimated, actual) == estimated - actual
VariancePercent(estimated, actual) ==
    IF estimated > 0
    THEN (VarianceAmount(estimated, actual) * 100) \div estimated
    ELSE 0

\* A PaymentResult that takes its transaction reference from the commit
\* answer instead of the reservation.
PaymentResultTxFromAnswer(reservation, actual_amount, provider, data) ==
    [payment_id |-> data.payment_id,
     request_id |-> reservation.request_id,
     reservation_id |-> reservation.reservation_id,
     estimated_amount |-> reservation.estimated_amount,
     actual_amount |-> actual_amount,
     variance_amount |-> VarianceAmount(reservation.estimated_amount,
                                        actual_amount),
     variance_percent |-> VariancePercent(reservation.estimated_amount,
                                          actual_amount),
     status |-> "COMMITTED", provider |-> provider,
     payment_tx_hash |-> data.payment_id + 1000,
     block_number |-> data.payment_id + 1000]

\* PaymentResult built by commit_payment (lines 333-347)
PaymentResult(reservation, actual_amount, provider, data) ==
    [payment_id |-> data.payment_id,
     request_id |-> reservation.request_id,
     reservation_id |-> reservation.reservation_id,
     estimated_amount |-> reservation.estimated_amount,
     actual_amount |-> actual_amount,
     variance_amount |-> VarianceAmount(reservation.estimated_amount,
                                        actual_amount),
     variance_percent |-> VariancePercent(reservation.estimated_amount,
                                          actual_amount),
     status |-> "COMMITTED", provider |-> provider,
     payment_tx_hash |-> reservation.tx_hash,
     block_number |-> reservation.block_number]

\* The backend's commit endpoint stores the record it is sent and answers
\* with a payment id; it makes no blockchain transaction.
BackendCommit(setl, reservation, actual_amount, answer) ==
    [settlements |-> Append(setl,
        [reservation_id |-> reservation.reservation_id,
         request_id |-> reservation.request_id,
         actual_amount |-> actual_amount]),
     data |-> [payment_id |-> answer.payment_id]]

\* commit_payment: computes the variance, posts it, returns the result;
\* every failure is re-raised as PaymentError (lines 370-372).
commit_payment(led, setl, reservation, actual_amount, provider, answer) ==
    IF answer.ok
    THEN LET b == BackendCommit(setl, reservation, actual_amount, answer)
         IN  [ledger |-> led, settlements |-> b.settlements, raised |-> "no",
              result |-> PaymentResult(reservation, actual_amount, provider,
                                       b.data)]
    ELSE [ledger |-> led, settlements |-> setl, raised |-> "PaymentError",
          result |-> <<>>]

\* Reservations handed out so far by reserve_payment
ReturnedReservations ==
    {pay_log[i].reservation :
        i \in {j \in 1..Len(pay_log) :
                 pay_log[j].op = "reserve" /\ pay_log[j].raised = "no"}}

ReservePayment ==
    \E rid \in RequestIds, amount \in Estimates, answer \in ReserveAnswers :
        /\ Len(pay_log) < MaxPayCalls
        /\ LET r == reserve_payment(ledger, rid, amount, answer)
           IN  /\ ledger' = r.ledger
               /\ pay_log' = Append(pay_log,
                     [op |-> "reserve", request_id |-> rid,
                      raised |-> r.raised, reservation |-> r.reservation,
                      result |-> <<>>])
        /\ UNCHANGED settlements
        /\ UNCHANGED <<logger_vars, auditlog_vars, pipe_vars, fun_vars>>

CommitPayment ==
    \E res \in ReturnedReservations, actual \in Actuals,
       answer \in CommitAnswers :
        /\ Len(pay_log) < MaxPayCalls
        /\ LET r == commit_payment(ledger, settlements, res, actual,
                                   "openai", answer)
           IN  /\ ledger' = r.ledger
               /\ settlements' = r.settlements
               /\ pay_log' = Append(pay_log,
                     [op |-> "commit", request_id |-> res.request_id,
                      raised |-> r.raised, reservation |-> res,
                      result |-> r.result])
        /\ UNCHANGED <<logger_vars, auditlog_vars, pipe_vars, fun_vars>>

InitPayment ==
    InitLoggerWith({"brain"}) /\ InitAuditLog /\ InitPay /\ InitPipe
    /\ InitFun

NextPayment == ReservePayment \/ CommitPayment

SpecPayment == InitPayment /\ [][NextPayment]_vars

Reserves == {i \in 1..Len(pay_log) : pay_log[i].op = "reserve"}
Commits == {i \in 1..Len(pay_log) : pay_log[i].op = "commit"}
LedgerWritesFor(rid) ==
    Cardinality({i \in 1..Len(ledger) : ledger[i].request_id = rid})

(* C3: for any sequence of reserve_payment calls, at most one on-ledger    *)
(* write is made per request id, and a replay with the same request id     *)
(* returns the same reservation (same reservation_id and tx_hash).         *)
C3_ReserveIdempotent ==
    /\ \A rid \in RequestIds : LedgerWritesFor(rid) <= 1
    /\ \A i, j \in Reserves :
          (/\ pay_log[i].request_id = pay_log[j].request_id
           /\ pay_log[i].raised = "no" /\ pay_log[j].raised = "no")
          => /\ pay_log[i].reservation.reservation_id
                  = pay_log[j].reservation.reservation_id
             /\ pay_log[i].reservation.tx_hash = pay_log[j].reservation.tx_hash

(* C6: once reserve_payment has returned a reservation, commit_payment on  *)
(* it returns a PaymentResult with status COMMITTED and never raises,      *)
(* whatever the backend answers.                                           *)
C6_CommitAlwaysSucceeds ==
    \A i \in Commits :
        /\ pay_log[i].raised = "no"
        /\ pay_log[i].result.status = "COMMITTED"

(* C7: a second commit_payment for the same reservation id yields the same *)
(* reconciliation record as the first (actual amount, variance, payment    *)
(* id) and records no second settlement.                                   *)
SettlementsFor(resid) ==
    Cardinality({i \in 1..Len(settlements) :
                    settlements[i].reservation_id = resid})

C7_CommitIdempotent ==
    /\ \A i, j \in Commits :
          (/\ pay_log[i].reservation.reservation_id
                 = pay_log[j].reservation.reservation_id
           /\ pay_log[i].raised = "no" /\ pay_log[j].raised = "no")
          => /\ pay_log[i].result.actual_amount = pay_log[j].result.actual_amount
             /\ pay_log[i].result.variance_amount
                  = pay_log[j].result.variance_amount
             /\ pay_log[i].result.payment_id = pay_log[j].result.payment_id
    /\ \A i \in Commits :
          SettlementsFor(pay_log[i].reservation.reservation_id) <= 1

(* C8: commit_payment makes no on-ledger write and hands the reservation's *)
(* transaction reference on unchanged: the result's payment_tx_hash and    *)
(* block_number are the reservation's tx_hash and block_number.            *)
CommitCallStep ==
    /\ Len(pay_log') = Len(pay_log) + 1
    /\ pay_log'[Len(pay_log')].op = "commit"

-----------------------------------------------------------------------------
(* PolicyManager: src/backend/agentic/src/policies/policy_manager.py       *)
(* Costs and limits are in hundredths of a USDC.                           *)

DefaultMaxPerRequestLimit == 10000   \* SystemPolicy.max_per_request_limit
DefaultPerRequestLimit == 1000       \* UserPolicy.per_request_limit

\* allowed_models dictionaries: no key at all, a key with an empty list,
\* a key with one model
ModelsNoKey == [p \in {} |-> {}]
ModelsEmptyList == [p \in {"openai"} |-> {}]
ModelsGpt4 == [p \in {"openai"} |-> {"gpt-4"}]

\* SystemPolicy(policy_id="sys_default", ...): every field at its default
DefaultSystemPolicy ==
    [policy_id |-> "sys_default", blocked_providers |-> {},
     blocked_models |-> {},
     max_per_request_limit |-> DefaultMaxPerRequestLimit]

\* System policies the backend can hold
SystemPolicies ==
    [policy_id : {"sys_backend"},
     blocked_providers : {{}, {"openai"}},
     blocked_models : {{}, {<<"openai", "gpt-4">>}},
     max_per_request_limit : {DefaultMaxPerRequestLimit}]

\* User policies as check_compliance reads them
CompliancePolicies ==
    [allowed_providers : {{}, {"openai"}},
     allowed_models : {ModelsNoKey, ModelsEmptyList, ModelsGpt4},
     forbidden_providers : {{}, {"openai"}},
     forbidden_operations : {{}, {<<"openai", "gpt-4", "chat">>}},
     per_request_limit : {50, DefaultPerRequestLimit},
     allowed_hours : {{}, {9}},
     allowed_days : {{}, {0}},
     is_active : BOOLEAN]

\* The fields of an APIRequest that check_compliance reads
ComplianceRequests ==
    [api_provider : {"openai", "anthropic"},
     model_name : {"gpt-4", "gpt-3.5"},
     operation_type : {"chat"},
     estimated_cost : {20, 100, DefaultMaxPerRequestLimit + 1}]

\* datetime.utcnow(): hour of the day and day of the week
Clocks == {[hour |-> 9, day |-> 0], [hour |-> 22, day |-> 6]}

\* ComplianceResult()
ComplianceResult ==
    [compliant |-> TRUE, violations |-> <<>>, warnings |-> <<>>,
     policies_checked |-> <<>>]

add_violation(result, policy_name, violation_type, severity) ==
    [result EXCEPT
        !.violations = Append(@, [policy_name |-> policy_name,
                                  violation_type |-> violation_type,
                                  severity |-> severity]),
        !.compliant = FALSE]

add_warning(result, message) ==
    [result EXCEPT !.warnings = Append(@, message)]

PolicyChecked(result, name) ==
    [result EXCEPT !.policies_checked = Append(@, name)]

\* _validate_provider: ok is the returned bool, result the object it filled
_validate_provider(provider, policy, result) ==
    LET r == PolicyChecked(result, "provider_whitelist")
    IN  IF provider \in policy.forbidden_providers
        THEN [ok |-> FALSE,
              result |-> add_violation(r, "provider_whitelist",
                                       "forbidden_provider", "critical")]
        ELSE IF policy.allowed_providers = {}
        THEN [ok |-> TRUE,
              result |-> add_warning(r, "No providers configured in policy")]
        ELSE IF provider \notin policy.allowed_providers
        THEN [ok |-> FALSE,
              result |-> add_violation(r, "provider_whitelist",
                                       "unauthorized_provider", "critical")]
        ELSE [ok |-> TRUE, result |-> r]

\* _validate_model
_validate_model(model, provider, policy, result) ==
    LET r == PolicyChecked(result, "model_whitelist")
    IN  IF DOMAIN policy.allowed_models = {}
           \/ provider \notin DOMAIN policy.allowed_models
        THEN [ok |-> TRUE,
              result |-> add_warning(r, "No model restrictions for provider")]
        ELSE IF model \notin policy.allowed_models[provider]
        THEN [ok |-> FALSE,
              result |-> add_violation(r, "model_whitelist",
                                       "unauthorized_model", "critical")]
        ELSE [ok |-> TRUE, result |-> r]

\* _validate_per_request_limit
_validate_per_request_limit(cost, policy, result) ==
    LET r == PolicyChecked(result, "per_request_limit")
    IN  IF cost > policy.per_request_limit
        THEN [ok |-> FALSE,
              result |-> add_violation(r, "per_request_limit",
                                       "cost_exceeded", "high")]
        ELSE [ok |-> TRUE, result |-> r]

\* _validate_time_restrictions
_validate_time_restrictions(policy, clock, result) ==
    LET r == PolicyChecked(result, "time_restrictions")
    IN  IF policy.allowed_hours /= {} /\ clock.hour \notin policy.allowed_hours
        THEN [ok |-> FALSE,
              result |-> add_violation(r, "time_restrictions",
                                       "outside_allowed_hours", "medium")]
        ELSE IF policy.allowed_days /= {} /\ clock.day \notin policy.allowed_days
        THEN [ok |-> FALSE,
              result |-> add_violation(r, "time_restrictions",
                                       "outside_allowed_days", "medium")]
        ELSE [ok |-> TRUE, result |-> r]

\* STEP 1 of check_compliance with the early exits taken out: a system
\* violation is recorded and the user-layer checks still run.
CheckSystemPolicyNoExit(request, system_policy, result) ==
    IF request.api_provider \in system_policy.blocked_providers
    THEN [stop |-> FALSE,
          result |-> add_violation(result, "system_policy",
                                   "blocked_provider", "critical")]
    ELSE IF <<request.api_provider, request.model_name>>
              \in system_policy.blocked_models
    THEN [stop |-> FALSE,
          result |-> add_violation(result, "system_policy",
                                   "blocked_model", "critical")]
    ELSE IF request.estimated_cost > system_policy.max_per_request_limit
    THEN [stop |-> FALSE,
          result |-> add_violation(result, "system_policy",
                                   "exceeds_system_limit", "critical")]
    ELSE [stop |-> FALSE, result |-> result]

\* STEP 1 of check_compliance: blocked provider, blocked provider/model,
\* system cap; stop is the early `return result`.
CheckSystemPolicy(request, system_policy, result) ==
    IF request.api_provider \in system_policy.blocked_providers
    THEN [stop |-> TRUE,
          result |-> add_violation(result, "system_policy",
                                   "blocked_provider", "critical")]
    ELSE IF <<request.api_provider, request.model_name>>
              \in system_policy.blocked_models
    THEN [stop |-> TRUE,
          result |-> add_violation(result, "system_policy",
                                   "blocked_model", "critical")]
    ELSE IF request.estimated_cost > system_policy.max_per_request_limit
    THEN [stop |-> TRUE,
          result |-> add_violation(result, "system_policy",
                                   "exceeds_system_limit", "critical")]
    ELSE [stop |-> FALSE, result |-> result]

\* STEP 2 of check_compliance, from 2c on: per-request limit, is_active,
\* forbidden operations, time restrictions.
CheckUserLimits(request, user_policy, clock, result) ==
    LET l == _validate_per_request_limit(request.estimated_cost, user_policy,
                                         result)
        f == IF <<request.api_provider, request.model_name,
                  request.operation_type>> \in user_policy.forbidden_operations
             THEN add_violation(l.result, "forbidden_operations",
                                "operation_blocked", "high")
             ELSE l.result
    IN  IF ~user_policy.is_active
        THEN add_violation(l.result, "user_policy", "inactive_policy",
                           "critical")
        ELSE _validate_time_restrictions(user_policy, clock, f).result

\* check_compliance(request, user_policy, system_policy)
check_compliance(request, user_policy, system_policy, clock) ==
    LET sys == CheckSystemPolicy(request, system_policy,
                                 PolicyChecked(ComplianceResult, "system_policy"))
        p == _validate_provider(request.api_provider, user_policy,
                                PolicyChecked(sys.result, "user_policy"))
        m == _validate_model(request.model_name, request.api_provider,
                             user_policy, p.result)
    IN  IF sys.stop THEN sys.result
        ELSE IF ~p.ok THEN p.result
        ELSE IF ~m.ok THEN m.result
        ELSE CheckUserLimits(request, user_policy, clock, m.result)

\* ComplianceResult.get_rejection_reason: the violation whose details are
\* reported (the first critical one, else the first high one, else the
\* first one)
RECURSIVE FirstOfSeverity(_, _)
FirstOfSeverity(violations, severity) ==
    IF violations = <<>> THEN <<>>
    ELSE IF Head(violations).severity = severity THEN <<Head(violations)>>
    ELSE FirstOfSeverity(Tail(violations), severity)
get_rejection_reason(result) ==
    IF FirstOfSeverity(result.violations, "critical") /= <<>>
    THEN FirstOfSeverity(result.violations, "critical")[1]
    ELSE IF FirstOfSeverity(result.violations, "high") /= <<>>
    THEN FirstOfSeverity(result.violations, "high")[1]
    ELSE result.violations[1]

\* The rejection reason of the engine's decision:
\* f"Policy violation: {policy_check['violations'][0]}"
EngineRejectionReason(policy_check) == policy_check.violations[1]

\* load_system_policy on a cold cache: the fetched policy, or the default
\* SystemPolicy when the fetch raises.
load_system_policy(fetch) ==
    IF fetch.ok THEN fetch.policy ELSE DefaultSystemPolicy

\* The SystemPolicy the backend serves
BackendSystemPolicy ==
    CHOOSE p \in SystemPolicies :
        p.blocked_providers = {} /\ p.blocked_models = {}

-----------------------------------------------------------------------------
(* AutonomousPaymentDecisionEngine:                                        *)
(*   src/agentic/src/decision_engine/decision_engine.py                    *)
(* Costs are in hundredths of a USDC, risk scores in tenths.               *)

MaxTokens == 1000000        \* "exceeds maximum (1M tokens)"
FlashCostLimit == 100       \* cost < 1.0
FlashRiskLimit == 50        \* risk_score < 5.0

\* An APIRequest as the engine reads it.  hashable = FALSE is a request_id
\* that is truthy but unhashable (a JSON list): `request_id in self._trails`
\* raises TypeError on it.  status is the dataclass default
\* RequestStatus.PENDING; no statement of the pipeline assigns it.
APIRequest(rid, user, provider, model, tokens, hashable) ==
    [request_id |-> rid, user_id |-> user, project_id |-> "p1",
     api_provider |-> provider, model_name |-> model,
     endpoint |-> "/chat/completions", estimated_tokens |-> tokens,
     hashable |-> hashable, status |-> "pending"]

\* Shapes of requests the engine is given
Requests ==
    {APIRequest(rid, "u1", prov, "gpt-4", 1000, TRUE) :
        rid \in RequestIds, prov \in {"openai", "anthropic"}}
    \cup {APIRequest("r1", "u1", "openai", model, 1000, TRUE) :
            model \in {"gpt-3.5", ""}}
    \cup {APIRequest("r1", "u1", "openai", "gpt-4", tokens, TRUE) :
            tokens \in {0, MaxTokens, MaxTokens + 1, -1}}
    \cup {APIRequest("r1", "", "openai", "gpt-4", 1000, TRUE),
          APIRequest("", "u1", "openai", "gpt-4", 1000, TRUE),
          APIRequest("r1", "u1", "openai", "gpt-4", 1000, FALSE),
          APIRequest("r1", "", "openai", "gpt-4", 1000, FALSE)}

\* User policies stored for the project: UserPolicy.allowed_providers and
\* UserPolicy.allowed_models (a provider without models has the empty set).
Providers == {"openai", "anthropic"}
NoModels == [p \in Providers |-> {}]
DefaultMaxRiskScore == 70      \* max_risk_score: float = 7.0
UserPolicies ==
    {[allowed_providers |-> {},
      allowed_models |-> [NoModels EXCEPT !["openai"] = {"gpt-4"}],
      max_risk_score |-> DefaultMaxRiskScore],
     [allowed_providers |-> {"openai"}, allowed_models |-> NoModels,
      max_risk_score |-> DefaultMaxRiskScore],
     [allowed_providers |-> {"openai"},
      allowed_models |-> [NoModels EXCEPT !["openai"] = {"gpt-4"}],
      max_risk_score |-> DefaultMaxRiskScore]}

Costs == {20, 100}
RiskScores == {10, 50, 80}
\* Outcomes an evaluator can put into its Decision
AgentOutcomes == {"APPROVED", "REJECTED", "ESCALATED"}

\* What the collaborators of one process_request call answer; ok = FALSE
\* is the call raising.  system_ok = FALSE is the GET of /policies/system
\* raising inside load_system_policy, policy_ok = FALSE is load_user_policy
\* raising.  BudgetTracker.check_sufficient_budget fails closed:
\* sufficient = FALSE is also its answer when the balance cannot be read.
AllEnvs ==
    [context_ok : BOOLEAN,
     system_ok : BOOLEAN,
     policy_ok : BOOLEAN,
     user_policy : UserPolicies,
     cost : {[ok |-> FALSE, value |-> 0]}
              \cup {[ok |-> TRUE, value |-> c] : c \in Costs},
     sufficient : BOOLEAN,
     compliant : BOOLEAN,
     risk : {[ok |-> FALSE, score |-> 0]}
              \cup {[ok |-> TRUE, score |-> x] : x \in RiskScores},
     agent : {[ok |-> FALSE, outcome |-> "None"]}
              \cup {[ok |-> TRUE, outcome |-> o] : o \in AgentOutcomes}]

\* The pipeline stops at the first collaborator that fails or says no; the
\* ones after it are never asked, so one answer of theirs is enough.
StepsPassed(env) ==
    <<env.context_ok, env.policy_ok, env.cost.ok, env.sufficient,
      env.compliant, env.risk.ok, env.agent.ok>>
Envs ==
    {env \in AllEnvs :
        /\ \A i \in 1..6 : ~StepsPassed(env)[i] => ~StepsPassed(env)[i + 1]
        /\ ~env.context_ok => env.system_ok}

\* _validate_request_structure: the first falsy required field, then the
\* token estimate when it is truthy.
_validate_request_structure(request) ==
    IF request.request_id = "" THEN [valid |-> FALSE, error |-> "request_id"]
    ELSE IF request.user_id = "" THEN [valid |-> FALSE, error |-> "user_id"]
    ELSE IF request.project_id = ""
    THEN [valid |-> FALSE, error |-> "project_id"]
    ELSE IF request.api_provider = ""
    THEN [valid |-> FALSE, error |-> "api_provider"]
    ELSE IF request.model_name = ""
    THEN [valid |-> FALSE, error |-> "model_name"]
    ELSE IF request.endpoint = "" THEN [valid |-> FALSE, error |-> "endpoint"]
    ELSE IF request.estimated_tokens /= 0 /\ request.estimated_tokens < 0
    THEN [valid |-> FALSE, error |-> "must be positive"]
    ELSE IF request.estimated_tokens /= 0
            /\ request.estimated_tokens > MaxTokens
    THEN [valid |-> FALSE, error |-> "exceeds maximum"]
    ELSE [valid |-> TRUE, error |-> "None"]

\* user_policy.allowed_models.get(provider, [])
AllowedModelsGet(user_policy, provider) ==
    IF provider \in DOMAIN user_policy.allowed_models
    THEN user_policy.allowed_models[provider]
    ELSE {}

\* _validate_provider_model without its first check
ValidateProviderModelNoEmptyCheck(request, user_policy) ==
    IF request.api_provider \notin user_policy.allowed_providers
    THEN [valid |-> FALSE, rejection_type |-> "UNAUTHORIZED_PROVIDER"]
    ELSE IF AllowedModelsGet(user_policy, request.api_provider) = {}
    THEN [valid |-> FALSE, rejection_type |-> "NO_MODELS_CONFIGURED"]
    ELSE IF request.model_name
              \notin AllowedModelsGet(user_policy, request.api_provider)
    THEN [valid |-> FALSE, rejection_type |-> "UNAUTHORIZED_MODEL"]
    ELSE [valid |-> TRUE, rejection_type |-> "None"]

\* _validate_provider_model
_validate_provider_model(request, user_policy) ==
    IF user_policy.allowed_providers = {}
    THEN [valid |-> FALSE, rejection_type |-> "NO_PROVIDERS_CONFIGURED"]
    ELSE IF request.api_provider \notin user_policy.allowed_providers
    THEN [valid |-> FALSE, rejection_type |-> "UNAUTHORIZED_PROVIDER"]
    ELSE IF AllowedModelsGet(user_policy, request.api_provider) = {}
    THEN [valid |-> FALSE, rejection_type |-> "NO_MODELS_CONFIGURED"]
    ELSE IF request.model_name
              \notin AllowedModelsGet(user_policy, request.api_provider)
    THEN [valid |-> FALSE, rejection_type |-> "UNAUTHORIZED_MODEL"]
    ELSE [valid |-> TRUE, rejection_type |-> "None"]

\* RiskAssessmentResult.__post_init__: the level of a score
RiskLevel(risk_score) ==
    IF risk_score <= 20 THEN "very_low"
    ELSE IF risk_score <= 40 THEN "low"
    ELSE IF risk_score <= 60 THEN "medium"
    ELSE IF risk_score <= 80 THEN "high"
    ELSE "critical"

\* A routing that sends the limits themselves to the fast tier
AgentTierInclusive(cost, risk_score) ==
    IF cost <= FlashCostLimit /\ risk_score <= FlashRiskLimit
    THEN "FLASH" ELSE "PRO"

\* _route_and_decide: the tier whose evaluator is asked
AgentTier(cost, risk_score) ==
    IF cost < FlashCostLimit /\ risk_score < FlashRiskLimit
    THEN "FLASH" ELSE "PRO"

\* A decision that turns an error into an approval
DecisionFailOpen(outcome, agent_tier, rejection_reason) ==
    [outcome |-> IF outcome = "ERROR" THEN "APPROVED" ELSE outcome,
     agent_tier |-> agent_tier, rejection_reason |-> rejection_reason]

Decision(outcome, agent_tier, rejection_reason) ==
    [outcome |-> outcome, agent_tier |-> agent_tier,
     rejection_reason |-> rejection_reason]
NoDecision == Decision("None", "None", "None")

\* A log_* call on an unhashable request_id: the event is built and written
\* (T is the state the call would leave), then `request_id in self._trails`
\* raises TypeError before any trail is touched.
TrailLookupRaises(S, T) == [T EXCEPT !.trails = S.trails]

\* process_request of the engine whose AuditLogger is l.  The result holds
\* the logger state, whether an exception reached the caller, the Decision,
\* request.estimated_cost, the collaborators called, the rejection type
\* of the allow-list check and the system policy the call worked with.
process_request(S, l, request, env) ==
    LET rid == request.request_id
        \* _load_policies: system_policy = load_system_policy()
        system_policy ==
            load_system_policy([ok |-> env.system_ok,
                                policy |-> BackendSystemPolicy])
        Out(S1, raised, decision, cost, fetched, rtype) ==
            [S |-> S1, raised |-> raised, decision |-> decision,
             estimated_cost |-> cost, fetched |-> fetched,
             rejection_type |-> rtype,
             system_policy |-> IF "policy" \in fetched
                               THEN system_policy.policy_id ELSE "None"]
        \* except Exception: log_error, then the ERROR decision
        Except(S0, cost, fetched, rtype) ==
            IF request.hashable
            THEN Out(log_error(S0, l, rid, "exception"), FALSE,
                     Decision("ERROR", "SYSTEM", "System error"),
                     cost, fetched, rtype)
            ELSE Out(TrailLookupRaises(S0, log_error(S0, l, rid, "exception")),
                     TRUE, NoDecision, cost, fetched, rtype)
        \* await self.audit_logger.log_*(...) followed by return, in the try
        LogAndReturn(S0, T, decision, cost, fetched, rtype) ==
            IF request.hashable
            THEN Out(T, FALSE, decision, cost, fetched, rtype)
            ELSE Except(TrailLookupRaises(S0, T), cost, fetched, rtype)
        validation == _validate_request_structure(request)
        check == _validate_provider_model(request, env.user_policy)
        cost == env.cost.value
        loaded == {"context", "policy"}
    IN  IF ~validation.valid
        THEN LogAndReturn(S, log_error(S, l, rid, "Invalid request"),
                          Decision("REJECTED", "SYSTEM", "Invalid request"),
                          0, {}, "None")
        ELSE IF ~env.context_ok THEN Except(S, 0, {"context"}, "None")
        ELSE IF ~env.policy_ok THEN Except(S, 0, loaded, "None")
        ELSE IF ~check.valid
        THEN LogAndReturn(S, log_policy_check(S, l, rid, FALSE),
                          Decision("REJECTED", "SYSTEM", check.rejection_type),
                          0, loaded, check.rejection_type)
        ELSE IF ~env.cost.ok
        THEN Except(S, 0, loaded \cup {"pricing"}, "None")
        ELSE IF ~env.sufficient
        THEN LogAndReturn(S, log_budget_check(S, l, rid, FALSE),
                          Decision("REJECTED", "SYSTEM", "Insufficient budget"),
                          cost, loaded \cup {"pricing", "budget"}, "None")
        ELSE IF ~env.compliant
        THEN LogAndReturn(S, log_policy_check(S, l, rid, FALSE),
                          Decision("REJECTED", "SYSTEM", "Policy violation"),
                          cost, loaded \cup {"pricing", "budget", "compliance"},
                          "None")
        ELSE IF ~env.risk.ok
        THEN Except(S, cost,
                    loaded \cup {"pricing", "budget", "compliance", "risk"},
                    "None")
        ELSE LET T8 == log_risk_assessment(S, l, rid, RiskLevel(env.risk.score))
                 upto8 == loaded \cup {"pricing", "budget", "compliance", "risk"}
             IN  IF ~request.hashable
                 THEN Except(TrailLookupRaises(S, T8), cost, upto8, "None")
                 ELSE IF ~env.agent.ok
                 THEN Except(T8, cost, upto8 \cup {"agent"}, "None")
                 ELSE LogAndReturn(T8,
                          log_agent_decision(T8, l, rid, env.agent.outcome),
                          Decision(env.agent.outcome,
                                   AgentTier(cost, env.risk.score), "None"),
                          cost, upto8 \cup {"agent"}, "None")

-----------------------------------------------------------------------------
(* Specification of the engine alone: process_request is called on         *)
(* arbitrary requests, against arbitrary answers of its collaborators.     *)

MaxEngineCalls == 1     \* process_request calls on one engine

\* The first collaborator whose call raised, as the try block meets them
FailedCollaborator(env) ==
    IF ~env.context_ok THEN "context"
    ELSE IF ~env.policy_ok THEN "policy"
    ELSE IF ~env.cost.ok THEN "pricing"
    ELSE IF env.sufficient /\ env.compliant /\ ~env.risk.ok THEN "risk"
    ELSE IF env.sufficient /\ env.compliant /\ ~env.agent.ok THEN "agent"
    ELSE "None"

\* The answers one request can meet.  A request that fails
\* _validate_request_structure asks no collaborator, one that fails
\* _validate_provider_model asks none after the policies, and one whose
\* request_id is unhashable never gets to the agent: as in Envs, one answer
\* of a collaborator that is not asked is enough.
EnvsFor(request) ==
    {env \in Envs :
        /\ ~_validate_request_structure(request).valid
              => ~env.cost.ok /\ env.system_ok
        /\ ~_validate_provider_model(request, env.user_policy).valid
              => ~env.cost.ok
        /\ ~request.hashable => ~env.agent.ok}

EngineProcessRequest ==
    \E request \in Requests : \E env \in EnvsFor(request) :
        /\ Len(engine_out) < MaxEngineCalls
        /\ LET r == process_request(LoggerState, "engine", request, env)
           IN  /\ SetLoggerState(r.S)
               /\ engine_out' = Append(engine_out,
                     [request |-> request,
                      allowed_providers |-> env.user_policy.allowed_providers,
                      loaded |-> env.context_ok /\ env.policy_ok,
                      failed |-> IF FailedCollaborator(env) \in r.fetched
                                 THEN FailedCollaborator(env) ELSE "None",
                      raised |-> r.raised, decision |-> r.decision,
                      fetched |-> r.fetched,
                      rejection_type |-> r.rejection_type,
                      system_fetch_failed |->
                          "policy" \in r.fetched /\ ~env.system_ok,
                      system_policy |-> r.system_policy,
                      max_risk_score |-> env.user_policy.max_risk_score,
                      estimated_cost |-> r.estimated_cost,
                      agent_answer |-> IF "agent" \in r.fetched THEN env.agent
                                       ELSE [ok |-> FALSE, outcome |-> "None"],
                      risk_score |-> IF "risk" \in r.fetched /\ env.risk.ok
                                     THEN env.risk.score ELSE 0,
                      written |->
                          [k \in 1..(Len(r.S.day_file) - Len(day_file)) |->
                              r.S.day_file[Len(day_file) + k].event_type],
                      error_logged |->
                          /\ r.S.day_file /= <<>>
                          /\ r.S.day_file[Len(r.S.day_file)].event_type
                                = "error"])
        /\ UNCHANGED <<auditlog_vars, pay_vars, brain, fun_vars>>

InitEngine ==
    InitLoggerWith({"engine"}) /\ InitAuditLog /\ InitPay /\ InitPipe
    /\ InitFun

NextEngine == EngineProcessRequest

SpecEngine == InitEngine /\ [][NextEngine]_vars

EngineCalls == 1..Len(engine_out)

(* C9: process_request of the engine never raises to its caller; when a    *)
(* collaborator call raises (context, policy, pricing, risk, evaluator) or *)
(* the audit write itself fails, it returns a Decision with outcome ERROR  *)
(* and tier SYSTEM, after an error audit event has been written.           *)
C9_NeverRaises ==
    \A i \in EngineCalls :
        /\ ~engine_out[i].raised
        /\ (engine_out[i].failed /= "None" \/ ~engine_out[i].request.hashable)
             => /\ engine_out[i].decision.outcome = "ERROR"
                /\ engine_out[i].decision.agent_tier = "SYSTEM"
                /\ engine_out[i].error_logged

-----------------------------------------------------------------------------
(* AgenticBrain: src/agentic/src/main.py                                   *)
(* The Brain and its engine each construct an AuditLogger; the calls of    *)
(* process_request run concurrently and interleave between their steps.    *)

Calls == {"c1", "c2"}

NoRequest == APIRequest("", "", "", "", 0, TRUE)
NoReservation ==
    PaymentReservation("", 0,
        [reservation_id |-> 0, tx_hash |-> 0, block_number |-> 0])

\* The locals of a process_request call that has not started
IdleCall ==
    [pc |-> "idle", request |-> NoRequest, outcome |-> "None",
     rejection_reason |-> "None", events |-> <<>>,
     estimated_cost |-> 0, reserve_calls |-> 0, reserved |-> FALSE,
     reservation |-> NoReservation, actual_cost |-> 0, returned |-> "None"]

\* request_data handed to process_request; complete = FALSE lacks one of the
\* keys user_id, project_id, api_provider, model_name (KeyError).
RequestDatas ==
    {[complete |-> TRUE,
      request |-> APIRequest(rid, "u1", "openai", "gpt-4", 1000, TRUE)] :
        rid \in RequestIds}
    \cup {[complete |-> TRUE,
           request |-> APIRequest("r1", "u1", "anthropic", "gpt-4", 1000, TRUE)],
          [complete |-> TRUE,
           request |-> APIRequest("r1", "u1", "openai", "gpt-4", 1000, FALSE)],
          [complete |-> FALSE,
           request |-> APIRequest("r1", "", "openai", "gpt-4", 1000, TRUE)]}

\* Collaborator answers of the Brain's engine, for a project that allows
\* openai / gpt-4
BrainEnvs ==
    {env \in Envs : /\ env.user_policy.allowed_providers = {"openai"}
                    /\ env.user_policy.allowed_models["openai"] = {"gpt-4"}}

\* A Brain that executes every request the engine did not reject
ShouldExecuteUnlessRejected(decision) == decision.outcome /= "REJECTED"

\* `if decision.outcome == DecisionOutcome.APPROVED`
ShouldExecute(decision) == decision.outcome = "APPROVED"

\* _call_provider_api: the mock answer, cost = estimated_cost * 0.95
_call_provider_api(estimated_cost) ==
    [cost |-> (estimated_cost * 95) \div 100]

\* The audit events written between logger states S and T, in order, as
\* <<event_type, result>>; the file holds one line per handler for each.
EventsWritten(S, T) ==
    [k \in 1..(T.log_count - S.log_count) |->
        LET ev == T.day_file[Len(S.day_file)
                             + (k - 1) * Cardinality(S.instances) + 1]
        IN  <<ev.event_type, ev.result>>]

\* The call's own record of the events it has written so far
Track(S, T, call) == [call EXCEPT !.events = @ \o EventsWritten(S, T)]

\* The except branch of process_request once api_request exists:
\* log_error on the Brain's logger, then the error dictionary.
BrainExcept(S, call) ==
    LET T == log_error(S, "brain", call.request.request_id, "exception")
    IN  [S |-> T,
         call |-> Track(S, T, [call EXCEPT !.pc = "done",
                                           !.returned = "error"])]

\* _create_request_from_data and log_request_received
BrainReceive(c) ==
    \E data \in RequestDatas :
        /\ brain[c].pc = "idle"
        /\ LET S == LoggerState
               rid == data.request.request_id
               call == [brain[c] EXCEPT !.request = data.request]
               T == log_request_received(S, "brain", rid)
           IN  IF ~data.complete
               THEN /\ UNCHANGED logger_vars
                    /\ brain' = [brain EXCEPT ![c] =
                          [@ EXCEPT !.pc = "done", !.returned = "error"]]
               ELSE IF ~data.request.hashable
               THEN LET S1 == TrailLookupRaises(S, T)
                        S2 == TrailLookupRaises(S1,
                                  log_error(S1, "brain", rid, "exception"))
                    IN  /\ SetLoggerState(S2)
                        /\ brain' = [brain EXCEPT ![c] =
                              Track(S, S2, [call EXCEPT !.pc = "done",
                                                        !.returned = "raised"])]
               ELSE /\ SetLoggerState(T)
                    /\ brain' = [brain EXCEPT ![c] =
                          Track(S, T, [call EXCEPT !.pc = "deciding"])]
        /\ UNCHANGED <<auditlog_vars, pay_vars, engine_out, fun_vars>>

\* decision_engine.process_request and the branch on its outcome
BrainDecide(c) ==
    \E env \in BrainEnvs :
        /\ brain[c].pc = "deciding"
        /\ LET r == process_request(LoggerState, "engine",
                                    brain[c].request, env)
               call == Track(LoggerState, r.S,
                          [brain[c] EXCEPT
                              !.outcome = r.decision.outcome,
                              !.rejection_reason = r.decision.rejection_reason,
                              !.estimated_cost = r.estimated_cost])
           IN  IF r.raised
               THEN LET x == BrainExcept(r.S, call)
                    IN  SetLoggerState(x.S) /\ brain' = [brain EXCEPT ![c] = x.call]
               ELSE /\ SetLoggerState(r.S)
                    /\ brain' = [brain EXCEPT ![c] =
                          IF ShouldExecute(r.decision)
                          THEN [call EXCEPT !.pc = "reserving"]
                          ELSE [call EXCEPT !.pc = "done",
                                            !.returned = "not_approved"]]
        /\ UNCHANGED <<auditlog_vars, pay_vars, engine_out, fun_vars>>

\* _execute_approved_request up to the commit call: reserve_payment,
\* log_payment_reserved, _call_provider_api, log_api_call_success.
BrainReserve(c) ==
    \E answer \in ReserveAnswers :
        /\ brain[c].pc = "reserving"
        /\ LET rid == brain[c].request.request_id
               r == reserve_payment(ledger, rid, brain[c].estimated_cost,
                                    answer)
               call == [brain[c] EXCEPT !.reserve_calls = @ + 1]
           IN  /\ ledger' = r.ledger
               /\ IF r.raised /= "no"
                  THEN LET x == BrainExcept(LoggerState, call)
                       IN  /\ SetLoggerState(x.S)
                           /\ brain' = [brain EXCEPT ![c] = x.call]
                  ELSE LET S1 == log_payment_reserved(LoggerState, "brain",
                                     rid, r.reservation.reservation_id)
                           api_response ==
                               _call_provider_api(brain[c].estimated_cost)
                           S2 == log_api_call_success(S1, "brain", rid)
                       IN  /\ SetLoggerState(S2)
                           /\ brain' = [brain EXCEPT ![c] =
                                 Track(LoggerState, S2,
                                     [call EXCEPT !.pc = "committing",
                                          !.reserved = TRUE,
                                          !.reservation = r.reservation,
                                          !.actual_cost = api_response.cost])]
        /\ UNCHANGED <<auditlog_vars, settlements, pay_log, engine_out, fun_vars>>

\* The rest of _execute_approved_request: commit_payment,
\* log_payment_completed, and the success dictionary.
BrainCommit(c) ==
    \E answer \in CommitAnswers :
        /\ brain[c].pc = "committing"
        /\ LET rid == brain[c].request.request_id
               r == commit_payment(ledger, settlements, brain[c].reservation,
                                   brain[c].actual_cost,
                                   brain[c].request.api_provider, answer)
           IN  /\ ledger' = r.ledger
               /\ settlements' = r.settlements
               /\ IF r.raised /= "no"
                  THEN LET x == BrainExcept(LoggerState, brain[c])
                       IN  /\ SetLoggerState(x.S)
                           /\ brain' = [brain EXCEPT ![c] = x.call]
                  ELSE LET T == log_payment_completed(LoggerState, "brain",
                                     rid, r.result.variance_amount)
                       IN  /\ SetLoggerState(T)
                           /\ brain' = [brain EXCEPT ![c] =
                                 Track(LoggerState, T,
                                     [@ EXCEPT !.pc = "done",
                                               !.returned = "success"])]
        /\ UNCHANGED <<auditlog_vars, pay_log, engine_out, fun_vars>>

Init ==
    /\ InitLoggerWith({"brain", "engine"})
    /\ InitAuditLog
    /\ InitPay
    /\ engine_out = <<>>
    /\ brain = [c \in Calls |-> IdleCall]
    /\ InitFun

Next ==
    \E c \in Calls :
        \/ BrainReceive(c)
        \/ BrainDecide(c)
        \/ BrainReserve(c)
        \/ BrainCommit(c)

Spec == Init /\ [][Next]_vars

\* Events of one type in the trail the Brain's logger returns for rid
EventsOfType(rid, type) ==
    LET tr == get_request_audit_trail(LoggerState, "brain", rid)
    IN  Cardinality({i \in 1..Len(tr) : tr[i].event_type = type})

(* C4: for every AgenticBrain.process_request whose decision is APPROVED,  *)
(* also when the reservation, the provider call or the settlement fails,   *)
(* the request's audit trail holds exactly one payment_reserved event and  *)
(* at most one payment_completed event.                                    *)
C4_OneReservedEventPerApproved ==
    \A c \in Calls :
        (brain[c].outcome = "APPROVED" /\ brain[c].pc = "done")
          => /\ EventsOfType(brain[c].request.request_id,
                             "payment_reserved") = 1
             /\ EventsOfType(brain[c].request.request_id,
                             "payment_completed") <= 1

(* C5: reserve_payment is invoked only for a decision whose outcome is     *)
(* APPROVED; a call whose outcome is REJECTED, ERROR or ESCALATED gets no  *)
(* reservation, and unless another call approved the same request id there *)
(* is no payment_reserved event and no ledger write for its request id.    *)
C5_ReserveOnlyWhenApproved ==
    \A c \in Calls :
        /\ brain[c].reserve_calls > 0 => brain[c].outcome = "APPROVED"
        /\ brain[c].outcome \in {"REJECTED", "ERROR", "ESCALATED"}
             => /\ brain[c].reserve_calls = 0
                /\ ~brain[c].reserved
                /\ (\A d \in Calls :
                       brain[d].request.request_id
                           = brain[c].request.request_id
                         => brain[d].outcome /= "APPROVED")
                     => /\ EventsOfType(brain[c].request.request_id,
                                        "payment_reserved") = 0
                        /\ LedgerWritesFor(brain[c].request.request_id) = 0

C5_Witness ==
    \E c, d \in Calls :
        /\ brain[c].outcome = "ESCALATED" /\ brain[c].pc = "done"
        /\ brain[d].outcome = "ERROR" /\ brain[d].pc = "done"
        /\ brain[c].request.request_id /= brain[d].request.request_id
        /\ ledger = <<>>

(* C35: a request's status follows the lifecycle pending -> validating ->  *)
(* approved|rejected -> executing -> executed|failed: by the time the       *)
(* pipeline returns a decision for a request its status is no longer        *)
(* pending, the status never moves backwards, and once a terminal status    *)
(* is set no field of the request changes.                                  *)
C35_StatusLeavesPending ==
    \A c \in Calls :
        brain[c].outcome /= "None" => brain[c].request.status /= "pending"

(* C20: a request rejected at one pipeline step leaves no audit event of   *)
(* any later step: an allow-list rejection (UNAUTHORIZED_PROVIDER) yields  *)
(* request_received then policy_check(failure) and no budget_check or      *)
(* risk_assessment event; a budget rejection yields a budget_check(failure)*)
(* event and no risk_assessment, agent_decision or payment_reserved event. *)
EventTypes(events) == {events[k][1] : k \in DOMAIN events}
C20_RejectionWritesNoLaterStep ==
    \A c \in Calls :
        /\ (brain[c].outcome = "REJECTED"
             /\ brain[c].rejection_reason = "UNAUTHORIZED_PROVIDER")
              => /\ Len(brain[c].events) >= 2
                 /\ brain[c].events[1] = <<"request_received", "success">>
                 /\ brain[c].events[2] = <<"policy_check", "failure">>
                 /\ EventTypes(brain[c].events)
                       \cap {"budget_check", "risk_assessment"} = {}
        /\ (brain[c].outcome = "REJECTED"
             /\ brain[c].rejection_reason = "Insufficient budget")
              => /\ \E k \in DOMAIN brain[c].events :
                        brain[c].events[k] = <<"budget_check", "failure">>
                 /\ EventTypes(brain[c].events)
                       \cap {"risk_assessment", "agent_decision",
                             "payment_reserved"} = {}

(* C21: for an approved request that runs to completion, the request's     *)
(* audit trail is exactly the sequence request_received,                   *)
(* policy_check(success), budget_check(success), risk_assessment,          *)
(* agent_decision(APPROVE), payment_reserved, api_call_success,            *)
(* payment_completed, in that order.                                       *)
ApprovedTrail ==
    <<<<"request_received", "success">>, <<"policy_check", "success">>,
      <<"budget_check", "success">>, <<"risk_assessment", "success">>,
      <<"agent_decision", "success">>, <<"payment_reserved", "success">>,
      <<"api_call_success", "success">>, <<"payment_completed", "success">>>>
C21_ApprovedTrailComplete ==
    \A c \in Calls :
        (brain[c].pc = "done" /\ brain[c].returned = "success")
          => brain[c].events = ApprovedTrail

(* C22: for every interleaving of concurrent log_* calls in one process    *)
(* (several in-flight requests, the Brain's logger and the engine's        *)
(* logger), the lines of the day file form one hash chain: each line after *)
(* the first has previous_hash equal to the current_hash of the line       *)
(* written immediately before it.                                          *)
C22_DayFileIsOneChain ==
    \A i \in 2..Len(day_file) :
        day_file[i].previous_hash = day_file[i - 1].current_hash

(* C39: each logged event appears exactly once in the day file, however   *)
(* many AuditLogger instances exist in the process (the Brain and the       *)
(* Decision Engine each create their own).                                  *)
C39_OneLinePerEvent ==
    \A i, j \in 1..Len(day_file) :
        day_file[i].log_id = day_file[j].log_id => i = j

\* The same over the events, one line taken per event
C22_EventsAreOneChain ==
    \A i \in 2..Len(day_file) :
        day_file[i].log_id /= day_file[i - 1].log_id
          => day_file[i].previous_hash = day_file[i - 1].current_hash

C20_Witness ==
    \E c, d \in Calls :
        /\ brain[c].pc = "done" /\ brain[d].pc = "done"
        /\ brain[c].request.request_id = brain[d].request.request_id
        /\ brain[c].rejection_reason = "UNAUTHORIZED_PROVIDER"
        /\ brain[c].events = <<<<"request_received", "success">>,
                               <<"policy_check", "failure">>>>
        /\ brain[d].rejection_reason = "Insufficient budget"
        /\ brain[d].events = <<<<"request_received", "success">>,
                               <<"budget_check", "failure">>>>

-----------------------------------------------------------------------------
(* Specification of check_compliance alone: one call on an arbitrary       *)
(* request, user policy, system policy and clock.                          *)

InitPolicy ==
    /\ InitLoggerWith({"engine"}) /\ InitAuditLog /\ InitPay /\ InitPipe
    /\ policy_in \in [request : ComplianceRequests,
                      user_policy : CompliancePolicies,
                      system_policy : SystemPolicies,
                      clock : Clocks]
    /\ policy_out = <<>>
    /\ budget_in = <<>>
    /\ budget_out = <<>>
    /\ InitIdle

CheckCompliance ==
    /\ policy_out = <<>>
    /\ policy_out' = <<check_compliance(policy_in.request,
                                        policy_in.user_policy,
                                        policy_in.system_policy,
                                        policy_in.clock)>>
    /\ UNCHANGED <<logger_vars, auditlog_vars, pay_vars, pipe_vars,
                   policy_in, budget_in, budget_out, cache_vars, risk_vars,
                   report_vars, file_vars>>

\* A second call with the same request and policies, at whatever time the
\* clock then shows
RecheckCompliance ==
    \E clock \in Clocks :
        /\ Len(policy_out) = 1
        /\ policy_out' = Append(policy_out,
                                check_compliance(policy_in.request,
                                                 policy_in.user_policy,
                                                 policy_in.system_policy,
                                                 clock))
        /\ UNCHANGED <<logger_vars, auditlog_vars, pay_vars, pipe_vars,
                       policy_in, budget_in, budget_out, cache_vars,
                       risk_vars, report_vars, file_vars>>

NextPolicy == CheckCompliance \/ RecheckCompliance

SpecPolicy == InitPolicy /\ [][NextPolicy]_vars

\* The ComplianceResult of the call, once it has returned
ComplianceReturned == policy_out /= <<>>
ComplianceOut == policy_out[1]

(* C11: check_compliance treats the allow-lists as closed: the result is   *)
(* not compliant whenever the user policy's allowed_providers is empty, or *)
(* the provider has no entry in allowed_models, or the model is not listed *)
(* for the provider.                                                       *)
C11_AllowListsClosed ==
    ComplianceReturned =>
        LET req == policy_in.request
            pol == policy_in.user_policy
        IN  (\/ pol.allowed_providers = {}
             \/ req.api_provider \notin DOMAIN pol.allowed_models
             \/ req.model_name \notin pol.allowed_models[req.api_provider])
              => ~ComplianceOut.compliant

\* The verdict of the provider and model allow-list checks that
\* check_compliance replays (steps 2a and 2b)
AllowListVerdict(request, user_policy) ==
    /\ _validate_provider(request.api_provider, user_policy,
                          ComplianceResult).ok
    /\ _validate_model(request.model_name, request.api_provider, user_policy,
                       ComplianceResult).ok

(* C12: for every request and user policy, the engine's early allow-list   *)
(* check (_validate_provider_model) and the provider and model checks that *)
(* check_compliance replays give the same verdict: one accepts if and only *)
(* if the other accepts.                                                   *)
C12_AllowListChecksAgree ==
    ComplianceReturned =>
        (_validate_provider_model(policy_in.request,
                                  policy_in.user_policy).valid
           <=> AllowListVerdict(policy_in.request, policy_in.user_policy))

\* The system-layer violation of a request, in the order of the checks
SystemViolationOf(request, system_policy) ==
    IF request.api_provider \in system_policy.blocked_providers
    THEN "blocked_provider"
    ELSE IF <<request.api_provider, request.model_name>>
              \in system_policy.blocked_models
    THEN "blocked_model"
    ELSE IF request.estimated_cost > system_policy.max_per_request_limit
    THEN "exceeds_system_limit"
    ELSE "None"

(* C14: check_compliance stops at the first system-layer violation         *)
(* (blocked provider, blocked provider/model pair, cost above the system   *)
(* cap): the result is not compliant, holds exactly that one critical      *)
(* violation, and no user-layer check has run, whatever the user policy.   *)
C14_SystemViolationShortCircuits ==
    (/\ ComplianceReturned
     /\ SystemViolationOf(policy_in.request, policy_in.system_policy) /= "None")
      => /\ ~ComplianceOut.compliant
         /\ ComplianceOut.violations
              = <<[policy_name |-> "system_policy",
                   violation_type |->
                       SystemViolationOf(policy_in.request,
                                         policy_in.system_policy),
                   severity |-> "critical"]>>
         /\ ComplianceOut.policies_checked = <<"system_policy">>
         /\ ComplianceOut.warnings = <<>>

(* C24: two runs of the pre-adjudicator pipeline on identical request,     *)
(* context, policies, pricing and baseline produce identical               *)
(* cost_estimate, risk_score, policies_checked and violations, at whatever *)
(* times the two runs happen.                                              *)
C24_SameInputsSameResult ==
    Len(policy_out) = 2
      => /\ policy_out[1].violations = policy_out[2].violations
         /\ policy_out[1].policies_checked = policy_out[2].policies_checked

(* C29: within the user layer of check_compliance, once the provider and   *)
(* model allow-list checks pass, every other violated check (per-request   *)
(* limit, inactive policy, forbidden operation, allowed hours, allowed     *)
(* weekdays) adds its own violation to the result, so a request that       *)
(* violates several of them gets one violation per violated check.         *)
ViolatedUserChecks(request, user_policy, clock) ==
    {"cost_exceeded" : x \in
        {z \in {1} : request.estimated_cost > user_policy.per_request_limit}}
    \cup {"inactive_policy" : x \in {z \in {1} : ~user_policy.is_active}}
    \cup {"operation_blocked" : x \in
        {z \in {1} : <<request.api_provider, request.model_name,
                       request.operation_type>>
                        \in user_policy.forbidden_operations}}
    \cup {"outside_allowed_hours" : x \in
        {z \in {1} : /\ user_policy.allowed_hours /= {}
                      /\ clock.hour \notin user_policy.allowed_hours}}
    \cup {"outside_allowed_days" : x \in
        {z \in {1} : /\ user_policy.allowed_days /= {}
                      /\ clock.day \notin user_policy.allowed_days}}
AllowListsPassed ==
    /\ ~CheckSystemPolicy(policy_in.request, policy_in.system_policy,
                          ComplianceResult).stop
    /\ "per_request_limit" \in
          {ComplianceOut.policies_checked[k] :
              k \in DOMAIN ComplianceOut.policies_checked}
C29_UserChecksAccumulate ==
    (ComplianceReturned /\ AllowListsPassed)
      => {ComplianceOut.violations[k].violation_type :
             k \in DOMAIN ComplianceOut.violations}
           = ViolatedUserChecks(policy_in.request, policy_in.user_policy,
                                policy_in.clock)

(* C30: the rejection reason reported for a non-compliant policy result,   *)
(* both by ComplianceResult.get_rejection_reason and in the engine's       *)
(* REJECTED decision, is taken from the violation of highest severity      *)
(* (critical > high > medium > low); among violations of equal severity    *)
(* the earliest-inserted one is used.                                      *)
SeverityRank(severity) ==
    IF severity = "critical" THEN 4
    ELSE IF severity = "high" THEN 3
    ELSE IF severity = "medium" THEN 2
    ELSE 1
HighestSeverityFirst(violations) ==
    violations[CHOOSE k \in DOMAIN violations :
        \A j \in DOMAIN violations :
            \/ SeverityRank(violations[j].severity)
                  < SeverityRank(violations[k].severity)
            \/ /\ SeverityRank(violations[j].severity)
                    = SeverityRank(violations[k].severity)
               /\ k <= j]
C30_ReasonFromHighestSeverity ==
    (ComplianceReturned /\ ~ComplianceOut.compliant)
      => /\ get_rejection_reason(ComplianceOut)
              = HighestSeverityFirst(ComplianceOut.violations)
         /\ EngineRejectionReason(ComplianceOut)
              = HighestSeverityFirst(ComplianceOut.violations)

\* The part of C30 about ComplianceResult.get_rejection_reason alone
C30_GetRejectionReasonHighestSeverity ==
    (ComplianceReturned /\ ~ComplianceOut.compliant)
      => get_rejection_reason(ComplianceOut)
           = HighestSeverityFirst(ComplianceOut.violations)

C14_Witness ==
    /\ ComplianceReturned
    /\ policy_in.request.estimated_cost
          > policy_in.system_policy.max_per_request_limit
    /\ policy_in.request.api_provider = "anthropic"
    /\ policy_in.user_policy.allowed_providers = {"openai"}
    /\ ~policy_in.user_policy.is_active
    /\ Len(ComplianceOut.violations) = 1
    /\ ComplianceOut.violations[1].violation_type = "exceeds_system_limit"

-----------------------------------------------------------------------------
(* C13: if fetching the system policy fails, process_request ends with     *)
(* outcome ERROR: the request is never evaluated against a substitute      *)
(* default system policy and never approved.                               *)
C13_SystemPolicyFailureIsError ==
    \A i \in EngineCalls :
        engine_out[i].system_fetch_failed
          => /\ engine_out[i].decision.outcome = "ERROR"
             /\ engine_out[i].system_policy /= DefaultSystemPolicy.policy_id

(* C15: a request whose assessed risk_score is greater than the user       *)
(* policy's max_risk_score is never given an APPROVED decision by          *)
(* process_request.                                                        *)
C15_RiskAboveCeilingNeverApproved ==
    \A i \in EngineCalls :
        engine_out[i].risk_score > engine_out[i].max_risk_score
          => engine_out[i].decision.outcome /= "APPROVED"

(* C19: if structural validation fails (a required identifier is empty,    *)
(* or estimated_tokens lies outside 0..1,000,000), process_request returns *)
(* REJECTED with tier SYSTEM, makes no fetch to any collaborator and       *)
(* writes exactly one error audit event.                                   *)
(* C27: process_request returns APPROVED only when the adjudicator returned *)
(* an approval: if the adjudicator call fails or times out the result is   *)
(* an ERROR decision, never an approval.                                   *)
C27_ApprovedOnlyByAdjudicator ==
    \A i \in EngineCalls :
        /\ engine_out[i].decision.outcome = "APPROVED"
             => /\ engine_out[i].agent_answer.ok
                /\ engine_out[i].agent_answer.outcome = "APPROVED"
        /\ ("agent" \in engine_out[i].fetched /\ ~engine_out[i].agent_answer.ok)
             => engine_out[i].decision.outcome = "ERROR"

C27_Witness ==
    \E i \in EngineCalls :
        /\ "agent" \in engine_out[i].fetched
        /\ ~engine_out[i].agent_answer.ok
        /\ engine_out[i].decision.outcome = "ERROR"
        /\ engine_out[i].written = <<"risk_assessment", "error">>

(* C28: the engine routes a request to the FAST (FLASH) adjudicator if and *)
(* only if estimated_cost < 1 and risk_score < 5; every other request,     *)
(* including cost exactly 1 or risk exactly 5, goes to the DEEP (PRO)      *)
(* adjudicator.                                                            *)
C28_FlashIffBelowBothLimits ==
    \A i \in EngineCalls :
        engine_out[i].agent_answer.ok
          => /\ engine_out[i].decision.agent_tier \in {"FLASH", "PRO"}
             /\ engine_out[i].decision.agent_tier = "FLASH"
                  <=> (/\ engine_out[i].estimated_cost < 100
                       /\ engine_out[i].risk_score < 50)

C28_Witness ==
    \E i \in EngineCalls :
        /\ engine_out[i].agent_answer.ok
        /\ engine_out[i].estimated_cost = 100
        /\ engine_out[i].risk_score = 10
        /\ engine_out[i].decision.agent_tier = "PRO"

C19_InvalidRequestRejected ==
    \A i \in EngineCalls :
        ~_validate_request_structure(engine_out[i].request).valid
          => /\ ~engine_out[i].raised
             /\ engine_out[i].decision.outcome = "REJECTED"
             /\ engine_out[i].decision.agent_tier = "SYSTEM"
             /\ engine_out[i].fetched = {}
             /\ engine_out[i].written = <<"error">>

\* The same for request ids that can key the trail dictionary
C19_InvalidHashableRequestRejected ==
    \A i \in EngineCalls :
        (/\ ~_validate_request_structure(engine_out[i].request).valid
         /\ engine_out[i].request.hashable)
          => /\ ~engine_out[i].raised
             /\ engine_out[i].decision.outcome = "REJECTED"
             /\ engine_out[i].decision.agent_tier = "SYSTEM"
             /\ engine_out[i].fetched = {}
             /\ engine_out[i].written = <<"error">>

-----------------------------------------------------------------------------
(*   src/agentic/src/budgets/budget_tracker.py                             *)
(* Amounts are in hundredths of a USDC.                                    *)

NoLimit == -1       \* a limit that is None

\* What the backend holds for a user/project: the answer of the balance
\* and status endpoints.
Accounts ==
    [available_balance : {0, 50, 100},
     spent_today : {0, 80},
     spent_this_month : {0, 80},
     daily_limit : {NoLimit, 0, 100},
     monthly_limit : {NoLimit, 100}]

Amounts == {30, 50, 120}

\* models.budget.BudgetPolicy: per_request_max, daily_limit, monthly_limit
BudgetPolicy(per_request_max, daily_limit, monthly_limit) ==
    [per_request_max |-> per_request_max, daily_limit |-> daily_limit,
     monthly_limit |-> monthly_limit]

\* An object that does carry the three attributes check_against_policy
\* reads (BudgetStatus has them)
LimitObject(per_request_limit, daily_limit, monthly_limit) ==
    [per_request_limit |-> per_request_limit, daily_limit |-> daily_limit,
     monthly_limit |-> monthly_limit]

BudgetPolicies ==
    {BudgetPolicy(p, 100, 100) : p \in {40, 1000}}
    \cup {LimitObject(p, d, 100) : p \in {NoLimit, 40}, d \in {NoLimit, 0, 100}}

\* BudgetCheck and its __post_init__: the message argument is replaced by
\* one of two generated messages (a shortfall of None is 0 here).
BudgetCheck(sufficient, available_balance, requested_amount, message) ==
    [sufficient |-> sufficient, available_balance |-> available_balance,
     requested_amount |-> requested_amount,
     shortfall |-> IF ~sufficient
                   THEN requested_amount - available_balance ELSE 0,
     message |-> IF ~sufficient THEN "Insufficient budget"
                 ELSE "Budget check passed"]

\* get_available_balance: the balance, or the request exception re-raised
get_available_balance(lookup_ok, account) ==
    [raised |-> ~lookup_ok,
     available |-> IF lookup_ok THEN account.available_balance ELSE 0]

\* check_sufficient_budget
check_sufficient_budget(lookup_ok, account, amount) ==
    LET b == get_available_balance(lookup_ok, account)
    IN  IF b.raised
        THEN BudgetCheck(FALSE, 0, amount, "Budget check error")
        ELSE BudgetCheck(b.available >= amount, b.available, amount, "")

\* The limit checks of check_against_policy on a status that was fetched;
\* `if policy.x` is false for None and for 0.
PolicyViolations(account, requested_amount, policy) ==
    {"Insufficient balance" : x \in
        {z \in {1} : requested_amount > account.available_balance}}
    \cup {"Exceeds per-request limit" : x \in
        {z \in {1} : /\ policy.per_request_limit \notin {NoLimit, 0}
                      /\ requested_amount > policy.per_request_limit}}
    \cup {"Would exceed daily limit" : x \in
        {z \in {1} : /\ policy.daily_limit \notin {NoLimit, 0}
                      /\ account.spent_today + requested_amount
                           > policy.daily_limit}}
    \cup {"Would exceed monthly limit" : x \in
        {z \in {1} : /\ policy.monthly_limit \notin {NoLimit, 0}
                      /\ account.spent_this_month + requested_amount
                           > policy.monthly_limit}}

\* check_against_policy.  Reading policy.per_request_limit on a BudgetPolicy
\* raises AttributeError; building the result raises TypeError, in the try
\* block and again in the except block: models.budget.BudgetCheck has no
\* fields current_balance, estimated_cost, remaining_budget, violations.
check_against_policy(lookup_ok, account, requested_amount, policy) ==
    LET in_try ==
            IF ~lookup_ok THEN "RequestException"
            ELSE IF "per_request_limit" \notin DOMAIN policy
            THEN "AttributeError"
            ELSE "TypeError"
        violations ==
            IF in_try = "TypeError"
            THEN PolicyViolations(account, requested_amount, policy)
            ELSE {"Budget policy check error"}
    IN  [raised |-> "TypeError", caught |-> in_try,
         available |-> FALSE, violations |-> violations]

\* Specification of the budget tracker: one call of one of the two checks
\* on an arbitrary account, amount and policy.
InitBudget ==
    /\ InitLoggerWith({"engine"})
    /\ InitAuditLog
    /\ InitPay
    /\ InitPipe
    /\ policy_in = <<>>
    /\ policy_out = <<>>
    /\ budget_in \in [lookup_ok : BOOLEAN, account : Accounts,
                      amount : Amounts, policy : BudgetPolicies]
    /\ budget_out = <<>>
    /\ InitIdle

CheckSufficientBudget ==
    /\ budget_out = <<>>
    /\ budget_out' =
         <<[op |-> "check_sufficient_budget",
            check |-> check_sufficient_budget(budget_in.lookup_ok,
                         budget_in.account, budget_in.amount)]>>
    /\ UNCHANGED <<logger_vars, auditlog_vars, pay_vars, pipe_vars,
                   policy_in, policy_out, budget_in, cache_vars, risk_vars,
                   report_vars, file_vars>>

CheckAgainstPolicy ==
    /\ budget_out = <<>>
    /\ budget_out' =
         <<[op |-> "check_against_policy",
            check |-> check_against_policy(budget_in.lookup_ok,
                         budget_in.account, budget_in.amount,
                         budget_in.policy)]>>
    /\ UNCHANGED <<logger_vars, auditlog_vars, pay_vars, pipe_vars,
                   policy_in, policy_out, budget_in, cache_vars, risk_vars,
                   report_vars, file_vars>>

NextBudget == CheckSufficientBudget \/ CheckAgainstPolicy

SpecBudget == InitBudget /\ [][NextBudget]_vars

SufficientBudgetReturned ==
    budget_out /= <<>> /\ budget_out[1].op = "check_sufficient_budget"
AgainstPolicyReturned ==
    budget_out /= <<>> /\ budget_out[1].op = "check_against_policy"
BudgetOut == budget_out[1].check

(* C16: whenever check_sufficient_budget(amount) returns sufficient=true,  *)
(* amount is at most the available balance and, when daily or monthly      *)
(* limits are configured, spent_today + amount is at most the daily limit  *)
(* and spent_month + amount is at most the monthly limit.                  *)
C16_SufficientRespectsLimits ==
    (SufficientBudgetReturned /\ BudgetOut.sufficient)
      => LET a == budget_in.account
         IN  /\ budget_in.amount <= a.available_balance
             /\ a.daily_limit /= NoLimit
                  => a.spent_today + budget_in.amount <= a.daily_limit
             /\ a.monthly_limit /= NoLimit
                  => a.spent_this_month + budget_in.amount <= a.monthly_limit

(* C17: check_against_policy permits an amount if and only if all of these *)
(* hold: amount <= available balance, amount <= per-request limit,         *)
(* spent_today + amount <= daily limit, spent_month + amount <= monthly    *)
(* limit, where a limit counts as unlimited only when it is absent.        *)
PolicyLimit(policy, name) ==
    IF name \in DOMAIN policy THEN policy[name] ELSE NoLimit
WithinLimit(value, limit) == limit = NoLimit \/ value <= limit
C17_PermitsIffWithinLimits ==
    AgainstPolicyReturned
      => LET a == budget_in.account
             policy == budget_in.policy
             per_request ==
                 IF "per_request_max" \in DOMAIN policy
                 THEN policy.per_request_max
                 ELSE PolicyLimit(policy, "per_request_limit")
         IN  (BudgetOut.raised = "no" /\ BudgetOut.available)
               <=> /\ budget_in.lookup_ok
                   /\ budget_in.amount <= a.available_balance
                   /\ WithinLimit(budget_in.amount, per_request)
                   /\ WithinLimit(a.spent_today + budget_in.amount,
                                  PolicyLimit(policy, "daily_limit"))
                   /\ WithinLimit(a.spent_this_month + budget_in.amount,
                                  PolicyLimit(policy, "monthly_limit"))

(* C18: when the balance lookup fails, check_sufficient_budget returns     *)
(* sufficient=false (never true) and the returned message is derived from  *)
(* the lookup error.                                                       *)
C18_LookupFailureMessage ==
    (SufficientBudgetReturned /\ ~budget_in.lookup_ok)
      => /\ ~BudgetOut.sufficient
         /\ BudgetOut.message = "Budget check error"

-----------------------------------------------------------------------------
(* The TTL caches: BudgetTracker.get_budget_status (30 s),                 *)
(* PricingEngine.get_provider_pricing (300 s) and                          *)
(* PolicyManager.load_system_policy (300 s).  Time is in seconds; the      *)
(* value the backend serves at second t is t.                              *)

BudgetCacheTtl == 30
PricingCacheTtl == 300
SystemPolicyTtl == 300
SecondsPerDay == 86400

MaxReads == 3       \* reads of the caches in one run

CacheKinds == {"budget_status", "pricing", "system_policy"}
Ttl(kind) ==
    IF kind = "budget_status" THEN BudgetCacheTtl
    ELSE IF kind = "pricing" THEN PricingCacheTtl
    ELSE SystemPolicyTtl

\* Seconds that pass between two reads
Delays == {1, BudgetCacheTtl, PricingCacheTtl, SecondsPerDay}

NoEntry == [present |-> FALSE, value |-> 0, cached_at |-> 0]

\* timedelta.seconds of a non-negative timedelta: the seconds within the
\* last day, the days are a separate attribute
TimedeltaSeconds(age) == age % SecondsPerDay

\* `(datetime.utcnow() - cached_at).seconds < ttl` on a filled cache
CacheHit(kind, entry, t) ==
    entry.present /\ TimedeltaSeconds(t - entry.cached_at) < Ttl(kind)

\* One read of a cache: the cached value on a hit; otherwise the backend is
\* asked, and its answer is stored and returned.  A failed fetch leaves the
\* cache as it is (the exception propagates; load_system_policy returns its
\* default, value 0 here, without storing it).
\* The read happens d seconds after the previous one.
CacheRead ==
    \E kind \in CacheKinds, fetch_ok \in BOOLEAN, d \in Delays :
        /\ Len(cache_reads) < MaxReads
        /\ now' = now + d
        /\ LET entry == cache[kind]
               hit == CacheHit(kind, entry, now')
           IN  /\ cache' = IF ~hit /\ fetch_ok
                           THEN [cache EXCEPT ![kind] =
                                   [present |-> TRUE, value |-> now',
                                    cached_at |-> now']]
                           ELSE cache
               /\ cache_reads' = Append(cache_reads,
                     [kind |-> kind, present |-> entry.present,
                      age |-> IF entry.present THEN now' - entry.cached_at
                              ELSE 0,
                      hit |-> hit,
                      fetched |-> ~hit,
                      value |-> IF hit THEN entry.value
                                ELSE IF fetch_ok THEN now' ELSE 0])
        /\ UNCHANGED <<logger_vars, auditlog_vars, pay_vars, pipe_vars,
                       policy_in, policy_out, budget_in, budget_out,
                       risk_vars, report_vars, file_vars>>

InitCache ==
    /\ InitLoggerWith({"engine"}) /\ InitAuditLog /\ InitPay /\ InitPipe
    /\ policy_in = <<>> /\ policy_out = <<>>
    /\ budget_in = <<>> /\ budget_out = <<>>
    /\ risk_in = <<>> /\ risk_out = <<>>
    /\ report_in = <<>> /\ report_out = <<>>
    /\ wall_clock = <<>> /\ file_lines = <<>>
    /\ now = 0
    /\ cache = [kind \in CacheKinds |-> NoEntry]
    /\ cache_reads = <<>>

NextCache == CacheRead

SpecCache == InitCache /\ [][NextCache]_vars

(* C23: a cached budget status (TTL 30 s), pricing entry (TTL 300 s) or    *)
(* system policy (TTL 300 s) is returned only while its age since fetch is *)
(* below the TTL; for every age at or above the TTL, including ages longer *)
(* than one day, the next read refetches from the backend.                 *)
C23_CacheHitOnlyBelowTtl ==
    \A i \in DOMAIN cache_reads :
        LET r == cache_reads[i]
        IN  /\ r.hit => r.age < Ttl(r.kind)
            /\ (r.present /\ r.age >= Ttl(r.kind)) => r.fetched

-----------------------------------------------------------------------------
(*   src/agentic/src/risk/risk_detector.py                                 *)
(* Scores and contributions are in tenths.                                 *)

BaseRiskScore == 10     \* risk_score = 1.0
MaxRiskScore == 100     \* min(risk_score, 10.0)

\* UserBaseline.fetch_from_backend: the stored baseline, or an exception
\* (no baseline stored, or the GET failing).  Costs are in hundredths.
NoBaseline ==
    [present |-> FALSE, average_request_cost |-> 0,
     average_requests_per_day |-> 0, typical_providers |-> {},
     typical_models |-> {}, typical_hours |-> {}]
Baselines ==
    [present : {TRUE}, average_request_cost : {0, 100},
     average_requests_per_day : {40}, typical_providers : {{}, {"openai"}},
     typical_models : {{}, {"openai/gpt-4"}}, typical_hours : {{}, {9}}]
BaselineFetches ==
    {[raised |-> TRUE, baseline |-> NoBaseline]}
    \cup {[raised |-> FALSE, baseline |-> b] : b \in Baselines}

\* _fetch_baseline: any exception of the fetch becomes None
_fetch_baseline(fetch) == IF fetch.raised THEN NoBaseline ELSE fetch.baseline

\* What one call of assess_risk is given: the request, the user context,
\* the hour of the clock and the answer of the baseline fetch.  new_agent,
\* rejections and budget are what the three checks that read only the user
\* context find.
RiskInputs ==
    [fetch : BaselineFetches, estimated_cost : {250, 350, 450, 1100},
     requests_today : {50, 110, 150}, api_provider : {"openai", "anthropic"},
     hour : {3, 9}, new_agent : {0, 15}, rejections : {0, 10, 20},
     budget : {0, 15}]

HighCostThreshold == 1000   \* request.estimated_cost > 10.0
RateThreshold == 100        \* total_requests_today > 100

\* _check_cost_anomaly.  deviation = (cost - average) / average, so
\* deviation > 3.0 is cost - average > 3 * average, and min(3.0, deviation)
\* is then 3.0.
_check_cost_anomaly(cost, baseline) ==
    IF ~baseline.present \/ baseline.average_request_cost = 0
    THEN (IF cost > HighCostThreshold THEN 20 ELSE 0)
    ELSE IF cost - baseline.average_request_cost
              > 3 * baseline.average_request_cost
    THEN 30
    ELSE IF cost - baseline.average_request_cost
              > 2 * baseline.average_request_cost
    THEN 15
    ELSE 0

_check_rate_anomaly(requests_today, baseline) ==
    IF requests_today > RateThreshold
       /\ (~baseline.present
           \/ requests_today > baseline.average_requests_per_day * 3)
    THEN 20 ELSE 0

_check_unusual_provider(provider, baseline) ==
    IF ~baseline.present \/ baseline.typical_providers = {} THEN 0
    ELSE IF provider \notin baseline.typical_providers THEN 10 ELSE 0

\* model_key = f"{request.api_provider}/{request.model_name}"
_check_unusual_model(provider, baseline) ==
    IF ~baseline.present \/ baseline.typical_models = {} THEN 0
    ELSE IF (IF provider = "openai" THEN "openai/gpt-4"
             ELSE "anthropic/gpt-4") \notin baseline.typical_models
    THEN 5 ELSE 0

_check_unusual_time(hour, baseline) ==
    IF ~baseline.present \/ baseline.typical_hours = {} THEN 0
    ELSE IF hour \notin baseline.typical_hours THEN 5 ELSE 0

\* What each of the eight factor checks of one call finds: the
\* risk_contribution of its RiskFactor, 0 when it returns None.
FactorChecks ==
    <<"cost", "rate", "provider", "model", "time", "agent", "rejections",
      "budget">>
Findings(in) ==
    LET baseline == _fetch_baseline(in.fetch)
    IN  [cost |-> _check_cost_anomaly(in.estimated_cost, baseline),
         rate |-> _check_rate_anomaly(in.requests_today, baseline),
         provider |-> _check_unusual_provider(in.api_provider, baseline),
         model |-> _check_unusual_model(in.api_provider, baseline),
         time |-> _check_unusual_time(in.hour, baseline),
         agent |-> in.new_agent, rejections |-> in.rejections,
         budget |-> in.budget]

RECURSIVE SumContributions(_, _)
SumContributions(findings, k) ==
    IF k = 0 THEN 0
    ELSE findings[FactorChecks[k]] + SumContributions(findings, k - 1)

\* The factor checks that returned a RiskFactor, in the order they ran
RiskFactorsOf(findings) ==
    SelectSeq(FactorChecks, LAMBDA f : findings[f] /= 0)

\* The dataclass constructor RiskAssessmentResult(**kwargs): risk_score and
\* risk_level have no default, so a call without them raises TypeError;
\* otherwise __post_init__ sets risk_level from the risk_score given.
RiskAssessmentResult(kwargs) ==
    IF {"risk_score", "risk_level"} \subseteq DOMAIN kwargs
    THEN [raised |-> "no", risk_score |-> kwargs.risk_score,
          risk_level |-> RiskLevel(kwargs.risk_score), risk_factors |-> <<>>]
    ELSE [raised |-> "TypeError", risk_score |-> 0, risk_level |-> "None",
          risk_factors |-> <<>>]

\* assess_risk: the result object is built from request_id, user_id and
\* project_id alone; the factors are then added up from 1.0, and the capped
\* sum is assigned to result.risk_score (risk_level is not touched again).
assess_risk(in) ==
    LET findings == Findings(in)
        result == RiskAssessmentResult([request_id |-> "r1", user_id |-> "u1",
                                        project_id |-> "p1"])
        risk_score == BaseRiskScore + SumContributions(findings, 8)
    IN  IF result.raised /= "no" THEN result
        ELSE [result EXCEPT
                !.risk_factors = RiskFactorsOf(findings),
                !.risk_score = IF risk_score < MaxRiskScore THEN risk_score
                               ELSE MaxRiskScore]

\* Specification of the risk detector: one call of assess_risk on an
\* arbitrary request, user context and baseline.
InitRisk ==
    /\ InitLoggerWith({"engine"}) /\ InitAuditLog /\ InitPay /\ InitPipe
    /\ policy_in = <<>> /\ policy_out = <<>>
    /\ budget_in = <<>> /\ budget_out = <<>>
    /\ now = 0 /\ cache = <<>> /\ cache_reads = <<>>
    /\ risk_in \in RiskInputs
    /\ risk_out = <<>>
    /\ report_in = <<>> /\ report_out = <<>>
    /\ wall_clock = <<>> /\ file_lines = <<>>

AssessRisk ==
    /\ risk_out = <<>>
    /\ risk_out' = <<[op |-> "assess_risk"] @@ assess_risk(risk_in)>>
    /\ UNCHANGED <<logger_vars, auditlog_vars, pay_vars, pipe_vars,
                   policy_in, policy_out, budget_in, budget_out, cache_vars,
                   risk_in, report_vars, file_vars>>

\* _check_cost_anomaly called on its own, on the baseline the fetch gave
CheckCostAnomaly ==
    /\ risk_out = <<>>
    /\ risk_out' =
          <<[op |-> "_check_cost_anomaly",
             risk_contribution |->
                 _check_cost_anomaly(risk_in.estimated_cost,
                                     _fetch_baseline(risk_in.fetch))]>>
    /\ UNCHANGED <<logger_vars, auditlog_vars, pay_vars, pipe_vars,
                   policy_in, policy_out, budget_in, budget_out, cache_vars,
                   risk_in, report_vars, file_vars>>

NextRisk == AssessRisk \/ CheckCostAnomaly

SpecRisk == InitRisk /\ [][NextRisk]_vars

RiskReturned == risk_out /= <<>> /\ risk_out[1].op = "assess_risk"
RiskOut == risk_out[1]
CostAnomalyReturned ==
    risk_out /= <<>> /\ risk_out[1].op = "_check_cost_anomaly"

C26_ScoreIsClippedSum ==
    RiskReturned
      => /\ RiskOut.raised = "no"
         /\ \/ RiskOut.risk_score = 10 + SumContributions(Findings(risk_in), 8)
            \/ /\ RiskOut.risk_score = 100
               /\ 10 + SumContributions(Findings(risk_in), 8) >= 100
         /\ RiskOut.risk_score \in 10..100

-----------------------------------------------------------------------------
(*   AuditLogger.generate_compliance_report                                *)
(* The report is read back from the day files; an event's timestamp is a   *)
(* whole number of time units.                                             *)

MaxLogged == 2      \* events logged before the report is asked for

ReportUsers == {"u1", "u2"}
ReportProjects == {"p1", "p2"}
ReportTimes == 1..3

\* What an event carries for the report: its type, its result, and the
\* event_details the report looks at (risk_level, decision, amount).
ReportKinds ==
    {[event_type |-> "request_received", result |-> "success",
      risk_level |-> "-", decision |-> "-", amount |-> 0],
     [event_type |-> "policy_check", result |-> "success",
      risk_level |-> "-", decision |-> "-", amount |-> 0],
     [event_type |-> "policy_check", result |-> "failure",
      risk_level |-> "-", decision |-> "-", amount |-> 0],
     [event_type |-> "risk_assessment", result |-> "success",
      risk_level |-> "low", decision |-> "-", amount |-> 0],
     [event_type |-> "risk_assessment", result |-> "success",
      risk_level |-> "high", decision |-> "-", amount |-> 0],
     [event_type |-> "agent_decision", result |-> "success",
      risk_level |-> "-", decision |-> "APPROVE", amount |-> 0],
     [event_type |-> "agent_decision", result |-> "success",
      risk_level |-> "-", decision |-> "REJECT", amount |-> 0],
     [event_type |-> "payment_reserved", result |-> "success",
      risk_level |-> "-", decision |-> "-", amount |-> 20],
     [event_type |-> "api_call_failed", result |-> "failure",
      risk_level |-> "-", decision |-> "-", amount |-> 0]}

ReportEvents ==
    [user_id : ReportUsers, project_id : ReportProjects,
     timestamp : ReportTimes, kind : ReportKinds]

\* Events in the order they were logged: timestamps never decrease.
LoggedEvents ==
    {<<e>> : e \in ReportEvents}
    \cup {ee \in ReportEvents \X ReportEvents :
            ee[1].timestamp <= ee[2].timestamp}

\* Arguments of the call; project_id "None" is the default project_id=None.
ReportQueries ==
    [user_id : {"u1"}, project_id : {"None", "p1"},
     start_date : {1, 2}, end_date : {2, 3}]

\* The lines of the day files: _write_event hands each event to the
\* process-wide logger, which writes one line per attached FileHandler.
RECURSIVE FileLines(_, _)
FileLines(events, handlers) ==
    IF events = <<>> THEN <<>>
    ELSE Repeat(Head(events), handlers) \o FileLines(Tail(events), handlers)

\* The three `continue` filters of the scan
ReportSelects(q, line) ==
    /\ line.user_id = q.user_id
    /\ q.start_date <= line.timestamp /\ line.timestamp <= q.end_date
    /\ ~(q.project_id /= "None" /\ line.project_id /= q.project_id)

EmptyReport ==
    [total_requests |-> 0, approved_requests |-> 0, rejected_requests |-> 0,
     total_spending |-> 0, policy_violations |-> 0, risk_alerts |-> 0,
     payment_failures |-> 0, api_failures |-> 0]

\* The if/elif chain that counts one selected line
CountLine(report, k) ==
    IF k.event_type = "request_received"
    THEN [report EXCEPT !.total_requests = @ + 1]
    ELSE IF k.event_type = "policy_check"
    THEN (IF k.result = "failure"
          THEN [report EXCEPT !.policy_violations = @ + 1] ELSE report)
    ELSE IF k.event_type = "risk_assessment"
    THEN (IF k.risk_level \in {"high", "critical"}
          THEN [report EXCEPT !.risk_alerts = @ + 1] ELSE report)
    ELSE IF k.event_type = "agent_decision"
    THEN (IF k.decision = "APPROVE"
          THEN [report EXCEPT !.approved_requests = @ + 1]
          ELSE IF k.decision = "REJECT"
          THEN [report EXCEPT !.rejected_requests = @ + 1] ELSE report)
    ELSE IF k.event_type = "payment_reserved"
    THEN [report EXCEPT !.total_spending = @ + k.amount]
    ELSE IF k.event_type = "api_call_failed"
    THEN [report EXCEPT !.api_failures = @ + 1]
    ELSE report

RECURSIVE ScanLines(_, _, _)
ScanLines(report, q, lines) ==
    IF lines = <<>> THEN report
    ELSE ScanLines(IF ReportSelects(q, Head(lines))
                   THEN CountLine(report, Head(lines).kind) ELSE report,
                   q, Tail(lines))

generate_compliance_report(q, lines) == ScanLines(EmptyReport, q, lines)

\* Specification of the report alone: some events were logged in a process
\* with one or two AuditLogger objects, then the report is generated.
InitReport ==
    /\ \E names \in (SUBSET LoggerNames) \ {{}} : InitLoggerWith(names)
    /\ InitAuditLog /\ InitPay /\ InitPipe
    /\ policy_in = <<>> /\ policy_out = <<>>
    /\ budget_in = <<>> /\ budget_out = <<>>
    /\ now = 0 /\ cache = <<>> /\ cache_reads = <<>>
    /\ risk_in = <<>> /\ risk_out = <<>>
    /\ report_in \in [logged : LoggedEvents, query : ReportQueries]
    /\ report_out = <<>>
    /\ wall_clock = <<>> /\ file_lines = <<>>

GenerateComplianceReport ==
    /\ report_out = <<>>
    /\ report_out' =
          <<generate_compliance_report(
                report_in.query,
                FileLines(report_in.logged, Cardinality(instances)))>>
    /\ UNCHANGED <<logger_vars, auditlog_vars, pay_vars, pipe_vars,
                   policy_in, policy_out, budget_in, budget_out, cache_vars,
                   risk_vars, report_in, file_vars>>

NextReport == GenerateComplianceReport

SpecReport == InitReport /\ [][NextReport]_vars

\* The logged events of the principal, project and window of a query
InWindow(q) ==
    {i \in 1..Len(report_in.logged) :
        LET e == report_in.logged[i]
        IN  /\ e.user_id = q.user_id
            /\ q.project_id \in {"None", e.project_id}
            /\ q.start_date <= e.timestamp /\ e.timestamp <= q.end_date}

CountOf(q, Is(_)) ==
    Cardinality({i \in InWindow(q) : Is(report_in.logged[i].kind)})

(* C31: for any principal, optional project and window [from, to], each    *)
(* counter of generate_compliance_report equals the number of logged       *)
(* events of the corresponding kind for that principal and project whose   *)
(* timestamp lies in the window, and total_spending equals the sum of the  *)
(* reserved amounts of those events.                                       *)
C31_ReportCountsLoggedEvents ==
    report_out /= <<>>
      => LET q == report_in.query
             r == report_out[1]
         IN  /\ r.total_requests
                  = CountOf(q, LAMBDA k : k.event_type = "request_received")
             /\ r.approved_requests
                  = CountOf(q, LAMBDA k : k.decision = "APPROVE")
             /\ r.rejected_requests
                  = CountOf(q, LAMBDA k : k.decision = "REJECT")
             /\ r.policy_violations
                  = CountOf(q, LAMBDA k : k.event_type = "policy_check"
                                          /\ k.result = "failure")
             /\ r.risk_alerts
                  = CountOf(q, LAMBDA k : k.risk_level = "high")
             /\ r.api_failures
                  = CountOf(q, LAMBDA k : k.event_type = "api_call_failed")
             /\ r.total_spending
                  = 20 * CountOf(q, LAMBDA k :
                                      k.event_type = "payment_reserved")

-----------------------------------------------------------------------------
(* Claims about the risk detector's baseline handling (SpecRisk)           *)

(* C32: when the baseline is missing or its fetch fails, assess_risk still *)
(* returns an assessment: the baseline-dependent factors (cost spike,      *)
(* unusual provider, unusual model, unusual time) contribute nothing, the  *)
(* score is still at least 1.0, and the absolute fallbacks (cost above 10  *)
(* adds 2.0; more than 100 requests today counts as a rate spike) still    *)
(* apply.                                                                  *)
C32_NoBaselineStillAssessed ==
    (RiskReturned /\ risk_in.fetch.raised)
      => /\ RiskOut.raised = "no"
         /\ \A k \in 1..Len(RiskOut.risk_factors) :
               RiskOut.risk_factors[k] \notin {"provider", "model", "time"}
         /\ RiskOut.risk_score >= BaseRiskScore
         /\ risk_in.estimated_cost > HighCostThreshold
              => \E k \in 1..Len(RiskOut.risk_factors) :
                    RiskOut.risk_factors[k] = "cost"
         /\ risk_in.requests_today > RateThreshold
              => \E k \in 1..Len(RiskOut.risk_factors) :
                    RiskOut.risk_factors[k] = "rate"

\* min(3.0, deviation) in tenths, deviation = (cost - mean) / mean
CostSpikeContribution(cost, mean) ==
    LET deviation10 == ((cost - mean) * 10) \div mean
    IN  IF deviation10 < 30 THEN deviation10 ELSE 30

(* C33: the cost_spike factor with contribution min(3.0, deviation) is     *)
(* applied exactly when the estimated cost exceeds 3 times the user's      *)
(* baseline mean cost.                                                     *)
C33_CostSpikeAboveThreeTimesMean ==
    LET baseline == _fetch_baseline(risk_in.fetch)
        mean == baseline.average_request_cost
        cost == risk_in.estimated_cost
    IN  (CostAnomalyReturned /\ baseline.present /\ mean > 0)
          => IF cost > 3 * mean
             THEN risk_out[1].risk_contribution
                    = CostSpikeContribution(cost, mean)
             ELSE risk_out[1].risk_contribution = 0

-----------------------------------------------------------------------------
(*   The day file of an AuditLogger (AuditLogger.__init__, _write_event)   *)
(* Time is counted in whole hours since 00:00 UTC of day 0; a date is the  *)
(* number of its day.                                                      *)

StartHours == {1, 22}           \* UTC hour at which the logger is built
ZoneOffsets == {-3, 0, 3}       \* local time minus UTC, in hours
HoursBetweenEvents == {0, 1, 3}

\* strftime('%Y%m%d') of a time: the date part, 24 hours to the day
DateOf(hour) == hour \div 24

\* datetime.now(): the local wall clock; datetime.utcnow(): the UTC one
LocalNow(c) == c.utc_hour + c.offset
UtcNow(c) == c.utc_hour

\* __init__: the FileHandler is opened on audit_<date of datetime.now()>
\* and kept for the life of the object.
HandlerFile(c) == DateOf(LocalNow(c))

InitFile ==
    /\ InitLoggerWith({"brain"}) /\ InitAuditLog /\ InitPay /\ InitPipe
    /\ policy_in = <<>> /\ policy_out = <<>>
    /\ budget_in = <<>> /\ budget_out = <<>>
    /\ now = 0 /\ cache = <<>> /\ cache_reads = <<>>
    /\ risk_in = <<>> /\ risk_out = <<>>
    /\ report_in = <<>> /\ report_out = <<>>
    /\ \E h \in StartHours, z \in ZoneOffsets :
          wall_clock = [utc_hour |-> h, offset |-> z,
                        file |-> HandlerFile([utc_hour |-> h, offset |-> z])]
    /\ file_lines = <<>>

\* Some hours pass, then a log_* method builds an event stamped
\* datetime.utcnow() and _write_event hands it to the handler.
WriteEventLater ==
    \E d \in HoursBetweenEvents :
        /\ Len(file_lines) < MaxEvents
        /\ wall_clock' = [wall_clock EXCEPT !.utc_hour = @ + d]
        /\ file_lines' = Append(file_lines,
                                [file |-> wall_clock.file,
                                 timestamp |-> UtcNow(wall_clock')])
        /\ UNCHANGED <<logger_vars, auditlog_vars, pay_vars, pipe_vars,
                       policy_in, policy_out, budget_in, budget_out,
                       cache_vars, risk_vars, report_vars>>

NextFile == WriteEventLater

SpecFile == InitFile /\ [][NextFile]_vars

(* C36: every audit event is appended to the day file named                *)
(* audit_YYYYMMDD for the UTC date of the event's timestamp, also when the *)
(* process keeps running across a UTC midnight.                            *)
C36_EventInFileOfItsUtcDate ==
    \A i \in 1..Len(file_lines) :
        file_lines[i].file = DateOf(file_lines[i].timestamp)
====
